---- MODULE Spec2Model ----
(***************************************************************************)
(* Model of the time tracker's session-tracking core: the rule engine      *)
(* (tt_rules.py), the session state machine (tt_sessions.py) and the part  *)
(* of the daemon loop that drives them (tt_daemon.py).                     *)
(*                                                                         *)
(* Time is counted in ticks of 1/Res second, so that datetimes between two *)
(* whole seconds exist: round() and the second-precision timestamp format  *)
(* of the session log are then real conversions.  Strings are sequences of *)
(* one-character strings.                                                  *)
(***************************************************************************)
EXTENDS Integers, Sequences, FiniteSets, TLC

VARIABLES
    config,             \* SessionManager.config
    current_session,    \* SessionManager.current_session
    sessions,           \* the rows of table sessions, in insertion order
    projects,           \* RuleEngine.projects, the rule snapshot
    call,               \* the most recent call and what it returned
    clock,              \* the wall clock: the timestamp of the latest sample
    settings,           \* table settings, as load_config reads it
    last_activity,      \* TTDaemon.last_activity
    running,            \* TTDaemon.running
    pc,                 \* where the daemon loop stands
    hist,               \* the samples of the open session, as they arrived
    held,               \* what the daemon process holds: socket, PID file, lock
    store,              \* the rule store: tables projects and rules
    reload,             \* what a reload() under way has fetched so far
    activity_blocks,    \* the rows of table activity_blocks, in id order
    instances,          \* where each daemon process stands
    flock,              \* the process holding the lock on daemon.lock, or 0
    tt_dir              \* the process that made the PID file and the socket, or 0

vars == <<config, current_session, sessions, projects, call, clock,
          settings, last_activity, running, pc, hist, held,
          store, reload, activity_blocks, instances, flock, tt_dir>>

daemonVars == <<clock, settings, last_activity, running, pc, held>>

storeVars == <<store, reload, activity_blocks>>

hostVars == <<instances, flock, tt_dir>>

(***************************************************************************)
(* Bounds of the model.                                                    *)
(***************************************************************************)
\* ticks per second
Res == 2
\* largest datetime (in ticks) a sample, a query or the clock can carry
MaxTime == 3
\* the session log is capped at this many records
MaxLog == 1

\* the longest sleep of the daemon loop between two samples, in ticks
MaxSleep == 2
\* where the status of the daemon is asked for, its loop is followed until
\* the clock reaches this many ticks, long enough for a grace period of one
\* second to run out after an idle sample
MaxClock == 4
\* the cap of the session log where it is followed beyond its first record
MaxRecords == 2

\* the daemon processes that can be started
MaxProcesses == 3
\* table activity_blocks is capped at this many rows
MaxBlocks == 2

Times == 0..MaxTime

Processes == 1..MaxProcesses

(***************************************************************************)
(* Optional values.                                                        *)
(***************************************************************************)
\* Optional[SessionState] / Optional[MatchResult] / Optional[int] = None
None == [none |-> TRUE]
\* Optional[datetime] = None
NoTime == 0 - 1
\* Optional[str] = None
NoStr == <<"<None>">>

Max(a, b) == IF a > b THEN a ELSE b

(***************************************************************************)
(* Conversions.                                                            *)
(***************************************************************************)
\* Python round() of a float number of seconds, given in ticks: to the
\* nearest integer, a tie going to the even one
Round(d) ==
    LET q == d \div Res
        r == d % Res
    IN  IF 2 * r < Res THEN q
        ELSE IF 2 * r > Res THEN q + 1
        ELSE IF q % 2 = 0 THEN q ELSE q + 1

\* strftime("%Y-%m-%dT%H:%M:%SZ"): the datetime cut to its whole second
format_utc_timestamp(dt) == dt \div Res

\* datetime.fromisoformat of a stored timestamp: the datetime of that second
parse_utc_timestamp(value) == value * Res

lowerOf == [A |-> "a", B |-> "b", C |-> "c", D |-> "d", I |-> "i",
            L |-> "l", M |-> "m", O |-> "o", P |-> "p", Y |-> "y"]

LowerChar(c) == IF c \in DOMAIN lowerOf THEN lowerOf[c] ELSE c

\* str.lower()
Lower(s) == [i \in 1..Len(s) |-> LowerChar(s[i])]

_norm(value) == IF value = NoStr THEN NoStr ELSE Lower(value)

(***************************************************************************)
(* String predicates of the rule engine.                                   *)
(***************************************************************************)
\* needle occurs in hay at offset k (0-based)
OccursAt(needle, hay, k) ==
    /\ k + Len(needle) <= Len(hay)
    /\ \A i \in 1..Len(needle) : hay[k + i] = needle[i]

\* _contains taking an absent field for the empty string
_contains_none_as_empty(haystack, needle) ==
    LET hay == IF haystack = NoStr THEN <<>> ELSE haystack
    IN  \E k \in 0..Len(hay) : OccursAt(Lower(needle), Lower(hay), k)

_contains(haystack, needle) ==
    IF haystack = NoStr THEN FALSE
    ELSE \E k \in 0..Len(haystack) : OccursAt(Lower(needle), Lower(haystack), k)

_prefix(haystack, needle) ==
    IF haystack = NoStr THEN FALSE
    ELSE OccursAt(Lower(needle), Lower(haystack), 0)

\* the patterns of the model are literals, "." (any character) and "("
\* (an unbalanced parenthesis: re.compile raises re.error)
ValidPattern(pattern) == \A i \in 1..Len(pattern) : pattern[i] # "("

PatternAt(pattern, hay, k) ==
    /\ k + Len(pattern) <= Len(hay)
    /\ \A i \in 1..Len(pattern) : pattern[i] = "." \/ hay[k + i] = pattern[i]

\* re.search(pattern, haystack) is not None, re.error caught
_regex_search(haystack, pattern) ==
    IF haystack = NoStr THEN FALSE
    ELSE IF ~ValidPattern(pattern) THEN FALSE
    ELSE \E k \in 0..Len(haystack) : PatternAt(pattern, haystack, k)

RULE_TYPES == {"app", "app_contains", "window_contains", "window_regex",
               "path_prefix", "path_contains", "url_contains", "url_regex"}

\* rule_matches comparing an app rule with the application name alone
rule_matches_app_name_only(activity, rule) ==
    LET value == rule.rule_value IN
    IF rule.rule_type \notin RULE_TYPES THEN FALSE
    ELSE IF rule.rule_type = "app" THEN
        IF activity.app_name = NoStr /\ activity.bundle_id = NoStr THEN FALSE
        ELSE _norm(activity.app_name) = Lower(value)
    ELSE IF rule.rule_type = "app_contains" THEN _contains(activity.app_name, value)
    ELSE IF rule.rule_type = "window_contains" THEN _contains(activity.window_title, value)
    ELSE IF rule.rule_type = "window_regex" THEN _regex_search(activity.window_title, value)
    ELSE IF rule.rule_type = "path_prefix" THEN _prefix(activity.file_path, value)
    ELSE IF rule.rule_type = "path_contains" THEN _contains(activity.file_path, value)
    ELSE IF rule.rule_type = "url_contains" THEN _contains(activity.url, value)
    ELSE IF rule.rule_type = "url_regex" THEN _regex_search(activity.url, value)
    ELSE FALSE

rule_matches(activity, rule) ==
    LET value == rule.rule_value IN
    IF rule.rule_type \notin RULE_TYPES THEN FALSE
    ELSE IF rule.rule_type = "app" THEN
        IF activity.app_name = NoStr /\ activity.bundle_id = NoStr THEN FALSE
        ELSE \/ _norm(activity.app_name) = Lower(value)
             \/ _norm(activity.bundle_id) = Lower(value)
    ELSE IF rule.rule_type = "app_contains" THEN _contains(activity.app_name, value)
    ELSE IF rule.rule_type = "window_contains" THEN _contains(activity.window_title, value)
    ELSE IF rule.rule_type = "window_regex" THEN _regex_search(activity.window_title, value)
    ELSE IF rule.rule_type = "path_prefix" THEN _prefix(activity.file_path, value)
    ELSE IF rule.rule_type = "path_contains" THEN _contains(activity.file_path, value)
    ELSE IF rule.rule_type = "url_contains" THEN _contains(activity.url, value)
    ELSE IF rule.rule_type = "url_regex" THEN _regex_search(activity.url, value)
    ELSE FALSE

(***************************************************************************)
(* The rule store (tables projects and rules) and the engine's snapshot.   *)
(***************************************************************************)
DbProjects == <<
    [id |-> 1, name |-> "Dev",  archived |-> 0],
    [id |-> 2, name |-> "Mail", archived |-> 0],
    [id |-> 3, name |-> "Old",  archived |-> 1] >>

DbRules == <<
    [id |-> 1, project_id |-> 1, rule_type |-> "app_contains",
     rule_value |-> <<"C", "o", "d">>, rule_group |-> 0, enabled |-> 1],
    [id |-> 2, project_id |-> 1, rule_type |-> "window_contains",
     rule_value |-> <<"p", "y">>, rule_group |-> 0, enabled |-> 1],
    [id |-> 3, project_id |-> 2, rule_type |-> "app",
     rule_value |-> <<"m", "a", "i", "l">>, rule_group |-> 0, enabled |-> 1],
    [id |-> 4, project_id |-> 2, rule_type |-> "url_contains",
     rule_value |-> <<"m", "a", "i", "l">>, rule_group |-> 1, enabled |-> 1],
    [id |-> 5, project_id |-> 2, rule_type |-> "window_regex",
     rule_value |-> <<"I", ".", "b">>, rule_group |-> 1, enabled |-> 1],
    [id |-> 6, project_id |-> 3, rule_type |-> "app_contains",
     rule_value |-> <<"o">>, rule_group |-> 0, enabled |-> 1],
    [id |-> 7, project_id |-> 1, rule_type |-> "app_contains",
     rule_value |-> <<"a">>, rule_group |-> 0, enabled |-> 0] >>

\* SELECT id, name FROM projects WHERE archived = 0 ORDER BY id (the tables
\* are kept in id order)
FetchProjects(dbProjects) ==
    LET Live(p) == p.archived = 0
    IN  SelectSeq(dbProjects, Live)

\* a query that forgets WHERE enabled = 1
FetchRules_all(dbRules) == dbRules

\* SELECT ... FROM rules WHERE enabled = 1 ORDER BY id
FetchRules(dbRules) ==
    LET Enabled(r) == r.enabled = 1
    IN  SelectSeq(dbRules, Enabled)

\* the snapshot reload() builds from the rows it fetched: the projects in
\* the order fetched, each with the fetched rules that carry its id
BuildSnapshot(projectRows, ruleRows) ==
    LET ToRule(r) == [id |-> r.id, project_id |-> r.project_id,
                      rule_type |-> r.rule_type, rule_value |-> r.rule_value,
                      rule_group |-> r.rule_group, enabled |-> (r.enabled # 0)]
        rulesOf(pid) ==
            LET Mine(r) == r.project_id = pid
                mine == SelectSeq(ruleRows, Mine)
            IN  [i \in 1..Len(mine) |-> ToRule(mine[i])]
    IN  [i \in 1..Len(projectRows) |->
            [id |-> projectRows[i].id, name |-> projectRows[i].name,
             rules |-> rulesOf(projectRows[i].id)]]

\* RuleEngine.reload as a whole: the non-archived projects in id order, each
\* with its enabled rules in id order
Reload(dbProjects, dbRules) ==
    BuildSnapshot(FetchProjects(dbProjects), FetchRules(dbRules))

\* sorted(rules, key=lambda r: r.id): stable insertion sort
RECURSIVE InsertById(_, _)
InsertById(r, s) ==
    IF s = <<>> THEN <<r>>
    ELSE IF r.id < Head(s).id THEN <<r>> \o s
    ELSE <<Head(s)>> \o InsertById(r, Tail(s))

RECURSIVE SortedById(_)
SortedById(s) ==
    IF s = <<>> THEN <<>>
    ELSE InsertById(s[Len(s)], SortedById(SubSeq(s, 1, Len(s) - 1)))

\* sorted(groups.keys())
RECURSIVE SortedInts(_)
SortedInts(S) ==
    IF S = {} THEN <<>>
    ELSE LET m == CHOOSE x \in S : \A y \in S : x <= y
         IN  <<m>> \o SortedInts(S \ {m})

\* f"{rule_type}: {rule_value}"
RuleTrigger(rule) == <<rule.rule_type, ": ">> \o rule.rule_value

\* " AND ".join(f"{r.rule_type}:{r.rule_value}" ...)
RECURSIVE JoinParts(_)
JoinParts(rules) ==
    IF rules = <<>> THEN <<>>
    ELSE LET part == <<Head(rules).rule_type, ":">> \o Head(rules).rule_value
         IN  IF Len(rules) = 1 THEN part
             ELSE part \o <<" AND ">> \o JoinParts(Tail(rules))

GroupTrigger(group_id, rules_in_group) ==
    <<"group ", ToString(group_id), ": ">> \o JoinParts(rules_in_group)

\* the first rule of the sequence that matches, or None
RECURSIVE FirstMatchingRule(_, _)
FirstMatchingRule(activity, rules) ==
    IF rules = <<>> THEN None
    ELSE IF rule_matches(activity, Head(rules)) THEN Head(rules)
    ELSE FirstMatchingRule(activity, Tail(rules))

\* the first group, in the order of group_ids, one of whose rules matches
RECURSIVE FirstMatchingGroup_any(_, _, _)
FirstMatchingGroup_any(activity, grouped, group_ids) ==
    IF group_ids = <<>> THEN None
    ELSE LET group_id == Head(group_ids)
             InGroup(r) == r.rule_group = group_id
             rules_in_group == SortedById(SelectSeq(grouped, InGroup))
         IN  IF \E i \in 1..Len(rules_in_group) :
                    rule_matches(activity, rules_in_group[i])
             THEN [group_id |-> group_id, rules |-> rules_in_group]
             ELSE FirstMatchingGroup_any(activity, grouped, Tail(group_ids))

\* the first group, in the order of group_ids, all of whose rules match
RECURSIVE FirstMatchingGroup(_, _, _)
FirstMatchingGroup(activity, grouped, group_ids) ==
    IF group_ids = <<>> THEN None
    ELSE LET group_id == Head(group_ids)
             InGroup(r) == r.rule_group = group_id
             rules_in_group == SortedById(SelectSeq(grouped, InGroup))
         IN  IF \A i \in 1..Len(rules_in_group) :
                    rule_matches(activity, rules_in_group[i])
             THEN [group_id |-> group_id, rules |-> rules_in_group]
             ELSE FirstMatchingGroup(activity, grouped, Tail(group_ids))

\* the iteration trying the groups before the ungrouped rules
MatchProject_groups_first(project, activity) ==
    LET Ungrouped(r) == r.rule_group = 0
        Grouped(r) == r.rule_group # 0
        ungrouped == SelectSeq(project.rules, Ungrouped)
        grouped == SelectSeq(project.rules, Grouped)
        rule == FirstMatchingRule(activity, SortedById(ungrouped))
        group_ids == SortedInts({grouped[i].rule_group : i \in 1..Len(grouped)})
        group == FirstMatchingGroup(activity, grouped, group_ids)
    IN  IF group # None
        THEN [project_id |-> project.id,
              triggered_by |-> GroupTrigger(group.group_id, group.rules)]
        ELSE IF rule # None
        THEN [project_id |-> project.id, triggered_by |-> RuleTrigger(rule)]
        ELSE None

\* one iteration of the loop over projects in RuleEngine.match
MatchProject(project, activity) ==
    LET Ungrouped(r) == r.rule_group = 0
        Grouped(r) == r.rule_group # 0
        ungrouped == SelectSeq(project.rules, Ungrouped)
        grouped == SelectSeq(project.rules, Grouped)
        rule == FirstMatchingRule(activity, SortedById(ungrouped))
        group_ids == SortedInts({grouped[i].rule_group : i \in 1..Len(grouped)})
        group == FirstMatchingGroup(activity, grouped, group_ids)
    IN  IF rule # None
        THEN [project_id |-> project.id, triggered_by |-> RuleTrigger(rule)]
        ELSE IF group # None
        THEN [project_id |-> project.id,
              triggered_by |-> GroupTrigger(group.group_id, group.rules)]
        ELSE None

\* a match that lets a later project of the snapshot override an earlier one
RECURSIVE Match_last(_, _)
Match_last(snapshot, activity) ==
    IF snapshot = <<>> THEN None
    ELSE LET m == MatchProject(Head(snapshot), activity)
             later == Match_last(Tail(snapshot), activity)
         IN  IF later # None THEN later ELSE m

\* RuleEngine.match over a snapshot
RECURSIVE Match(_, _)
Match(snapshot, activity) ==
    IF snapshot = <<>> THEN None
    ELSE LET m == MatchProject(Head(snapshot), activity)
         IN  IF m # None THEN m ELSE Match(Tail(snapshot), activity)

(***************************************************************************)
(* Inputs: the samples and the configurations.                             *)
(***************************************************************************)
\* what the sampler can see on screen (the descriptive fields of Activity)
Screens == {
    \* editor: matched to project 1 by rule 1
    [app_name |-> <<"C", "o", "d", "e">>, bundle_id |-> NoStr,
     window_title |-> NoStr, file_path |-> NoStr, url |-> NoStr],
    \* terminal: matched to project 1 by rule 2
    [app_name |-> <<"T", "e", "r", "m">>, bundle_id |-> NoStr,
     window_title |-> <<"a", ".", "P", "Y">>, file_path |-> NoStr, url |-> NoStr],
    \* mail client: matched to project 2 by rule 3
    [app_name |-> NoStr, bundle_id |-> <<"M", "a", "i", "l">>,
     window_title |-> <<"I", "n", "b">>, file_path |-> NoStr, url |-> NoStr],
    \* untracked application
    [app_name |-> <<"T", "e", "r", "m">>, bundle_id |-> NoStr,
     window_title |-> <<"t", "o", "p">>, file_path |-> NoStr, url |-> NoStr] }

Activity(t, screen, idle) ==
    [timestamp |-> t, app_name |-> screen.app_name, bundle_id |-> screen.bundle_id,
     window_title |-> screen.window_title, file_path |-> screen.file_path,
     url |-> screen.url, idle |-> idle]

Activities == {Activity(t, screen, idle) : t \in Times, screen \in Screens, idle \in BOOLEAN}

Config(idle_grace_period, session_grace_period, min_session_duration, tracking_paused) ==
    [idle_grace_period |-> idle_grace_period,
     session_grace_period |-> session_grace_period,
     min_session_duration |-> min_session_duration,
     tracking_paused |-> tracking_paused]

\* the configurations of the model (periods in seconds): either grace period
\* can be the longer one, the minimum duration varies, tracking can be paused
Configs == {Config(1, 0, 0, 0), Config(0, 1, 1, 0), Config(1, 0, 2, 1)}

\* the snapshots the engine holds in the model, and match tabulated over them
Snapshots == {Reload(DbProjects, DbRules)}

ScreenOf(activity) ==
    [app_name |-> activity.app_name, bundle_id |-> activity.bundle_id,
     window_title |-> activity.window_title, file_path |-> activity.file_path,
     url |-> activity.url]

MatchTable ==
    [snapshot \in Snapshots |->
        [screen \in Screens |-> Match(snapshot, Activity(0, screen, FALSE))]]

\* RuleEngine.match, read from the table where the table has the entry
\* (match depends on the descriptive fields only)
rule_engine_match(snapshot, activity) ==
    IF snapshot \in Snapshots /\ ScreenOf(activity) \in Screens
    THEN MatchTable[snapshot][ScreenOf(activity)]
    ELSE Match(snapshot, activity)

(***************************************************************************)
(* SessionManager.  The manager's state is the pair                        *)
(*   [session |-> current_session, log |-> rows of table sessions].        *)
(***************************************************************************)
SessionState(project_id, start_time, triggered_by, duration_seconds, last_active_time, last_tracked_time) ==
    [project_id |-> project_id, start_time |-> start_time,
     triggered_by |-> triggered_by, duration_seconds |-> duration_seconds,
     last_active_time |-> last_active_time, last_tracked_time |-> last_tracked_time]

\* _end_session without the minimum-duration test
_end_session_no_minimum(cfg, st, end_time) ==
    IF st.session = None THEN st
    ELSE [session |-> None,
          log |-> Append(st.log,
              [project_id |-> st.session.project_id,
               start_time |-> format_utc_timestamp(st.session.start_time),
               end_time |-> format_utc_timestamp(end_time),
               duration |-> Round(st.session.duration_seconds),
               triggered_by |-> st.session.triggered_by])]

\* _end_session extending the latest record when it is of the same project,
\* instead of inserting one
_end_session_extends_last(cfg, st, end_time) ==
    IF st.session = None THEN st
    ELSE LET duration == Round(st.session.duration_seconds) IN
         IF duration < cfg.min_session_duration
         THEN [st EXCEPT !.session = None]
         ELSE IF st.log # <<>> /\ st.log[Len(st.log)].project_id = st.session.project_id
         THEN [session |-> None,
               log |-> [st.log EXCEPT ![Len(st.log)] =
                   [@ EXCEPT !.end_time = format_utc_timestamp(end_time),
                             !.duration = @ + duration]]]
         ELSE [session |-> None,
               log |-> Append(st.log,
                   [project_id |-> st.session.project_id,
                    start_time |-> format_utc_timestamp(st.session.start_time),
                    end_time |-> format_utc_timestamp(end_time),
                    duration |-> duration,
                    triggered_by |-> st.session.triggered_by])]

\* _end_session returning from the minimum-duration test without clearing
\* the open session
_end_session_discard_keeps(cfg, st, end_time) ==
    IF st.session = None THEN st
    ELSE LET duration == Round(st.session.duration_seconds) IN
         IF duration < cfg.min_session_duration
         THEN st
         ELSE [session |-> None,
               log |-> Append(st.log,
                   [project_id |-> st.session.project_id,
                    start_time |-> format_utc_timestamp(st.session.start_time),
                    end_time |-> format_utc_timestamp(end_time),
                    duration |-> duration,
                    triggered_by |-> st.session.triggered_by])]

\* SessionManager._end_session
_end_session(cfg, st, end_time) ==
    IF st.session = None THEN st
    ELSE LET duration == Round(st.session.duration_seconds) IN
         IF duration < cfg.min_session_duration
         THEN [st EXCEPT !.session = None]
         ELSE [session |-> None,
               log |-> Append(st.log,
                   [project_id |-> st.session.project_id,
                    start_time |-> format_utc_timestamp(st.session.start_time),
                    end_time |-> format_utc_timestamp(end_time),
                    duration |-> duration,
                    triggered_by |-> st.session.triggered_by])]

\* the session a matching sample opens
NewSession(activity, match) ==
    SessionState(match.project_id, activity.timestamp, match.triggered_by, 0,
                 activity.timestamp, activity.timestamp)

\* _handle_active opening the new project's session over the open one
_handle_active_overwrites(cfg, st, activity, match) ==
    IF st.session = None
    THEN [st EXCEPT !.session = NewSession(activity, match)]
    ELSE IF st.session.project_id # match.project_id
    THEN [st EXCEPT !.session = NewSession(activity, match)]
    ELSE LET cur == st.session
             delta == activity.timestamp - cur.last_tracked_time
             duration == IF cur.last_tracked_time # NoTime /\ delta > 0
                         THEN cur.duration_seconds + delta
                         ELSE cur.duration_seconds
         IN  [st EXCEPT !.session =
                 [cur EXCEPT !.duration_seconds = duration,
                             !.last_tracked_time = activity.timestamp,
                             !.last_active_time = activity.timestamp,
                             !.triggered_by = match.triggered_by]]

\* _handle_active adding the time since last_tracked_time whatever its sign
_handle_active_signed(cfg, st, activity, match) ==
    IF st.session = None
    THEN [st EXCEPT !.session = NewSession(activity, match)]
    ELSE IF st.session.project_id # match.project_id
    THEN [_end_session(cfg, st, st.session.last_active_time)
            EXCEPT !.session = NewSession(activity, match)]
    ELSE LET cur == st.session
             delta == activity.timestamp - cur.last_tracked_time
             duration == IF cur.last_tracked_time # NoTime
                         THEN cur.duration_seconds + delta
                         ELSE cur.duration_seconds
         IN  [st EXCEPT !.session =
                 [cur EXCEPT !.duration_seconds = duration,
                             !.last_tracked_time = activity.timestamp,
                             !.last_active_time = activity.timestamp,
                             !.triggered_by = match.triggered_by]]

\* _handle_active closing the previous project's session at the new
\* sample's timestamp
_handle_active_ends_at_sample(cfg, st, activity, match) ==
    IF st.session = None
    THEN [st EXCEPT !.session = NewSession(activity, match)]
    ELSE IF st.session.project_id # match.project_id
    THEN [_end_session(cfg, st, activity.timestamp)
            EXCEPT !.session = NewSession(activity, match)]
    ELSE LET cur == st.session
             delta == activity.timestamp - cur.last_tracked_time
             duration == IF cur.last_tracked_time # NoTime /\ delta > 0
                         THEN cur.duration_seconds + delta
                         ELSE cur.duration_seconds
         IN  [st EXCEPT !.session =
                 [cur EXCEPT !.duration_seconds = duration,
                             !.last_tracked_time = activity.timestamp,
                             !.last_active_time = activity.timestamp,
                             !.triggered_by = match.triggered_by]]

\* _handle_active finalizing the previous project's session twice
_handle_active_ends_twice(cfg, st, activity, match) ==
    IF st.session = None
    THEN [st EXCEPT !.session = NewSession(activity, match)]
    ELSE IF st.session.project_id # match.project_id
    THEN LET once == _end_session(cfg, st, st.session.last_active_time)
             twice == _end_session(cfg, [once EXCEPT !.session = st.session],
                                   st.session.last_active_time)
         IN  [twice EXCEPT !.session = NewSession(activity, match)]
    ELSE LET cur == st.session
             delta == activity.timestamp - cur.last_tracked_time
             duration == IF cur.last_tracked_time # NoTime /\ delta > 0
                         THEN cur.duration_seconds + delta
                         ELSE cur.duration_seconds
         IN  [st EXCEPT !.session =
                 [cur EXCEPT !.duration_seconds = duration,
                             !.last_tracked_time = activity.timestamp,
                             !.last_active_time = activity.timestamp,
                             !.triggered_by = match.triggered_by]]

\* _handle_active keeping the triggered_by the session was opened with
_handle_active_keeps_trigger(cfg, st, activity, match) ==
    IF st.session = None
    THEN [st EXCEPT !.session = NewSession(activity, match)]
    ELSE IF st.session.project_id # match.project_id
    THEN [_end_session(cfg, st, st.session.last_active_time)
            EXCEPT !.session = NewSession(activity, match)]
    ELSE LET cur == st.session
             delta == activity.timestamp - cur.last_tracked_time
             duration == IF cur.last_tracked_time # NoTime /\ delta > 0
                         THEN cur.duration_seconds + delta
                         ELSE cur.duration_seconds
         IN  [st EXCEPT !.session =
                 [cur EXCEPT !.duration_seconds = duration,
                             !.last_tracked_time = activity.timestamp,
                             !.last_active_time = activity.timestamp]]

\* _handle_active leaving last_active_time where it was in the same-project
\* branch
_handle_active_stale_last_active(cfg, st, activity, match) ==
    IF st.session = None
    THEN [st EXCEPT !.session = NewSession(activity, match)]
    ELSE IF st.session.project_id # match.project_id
    THEN [_end_session(cfg, st, st.session.last_active_time)
            EXCEPT !.session = NewSession(activity, match)]
    ELSE LET cur == st.session
             delta == activity.timestamp - cur.last_tracked_time
             duration == IF cur.last_tracked_time # NoTime /\ delta > 0
                         THEN cur.duration_seconds + delta
                         ELSE cur.duration_seconds
         IN  [st EXCEPT !.session =
                 [cur EXCEPT !.duration_seconds = duration,
                             !.last_tracked_time = activity.timestamp,
                             !.triggered_by = match.triggered_by]]

\* _handle_active starting the new project's session where the previous
\* project's session started
_handle_active_inherits_start(cfg, st, activity, match) ==
    IF st.session = None
    THEN [st EXCEPT !.session = NewSession(activity, match)]
    ELSE IF st.session.project_id # match.project_id
    THEN [_end_session(cfg, st, st.session.last_active_time)
            EXCEPT !.session = [NewSession(activity, match)
                                  EXCEPT !.start_time = st.session.start_time]]
    ELSE LET cur == st.session
             delta == activity.timestamp - cur.last_tracked_time
             duration == IF cur.last_tracked_time # NoTime /\ delta > 0
                         THEN cur.duration_seconds + delta
                         ELSE cur.duration_seconds
         IN  [st EXCEPT !.session =
                 [cur EXCEPT !.duration_seconds = duration,
                             !.last_tracked_time = activity.timestamp,
                             !.last_active_time = activity.timestamp,
                             !.triggered_by = match.triggered_by]]

\* SessionManager._handle_active
_handle_active(cfg, st, activity, match) ==
    IF st.session = None
    THEN [st EXCEPT !.session = NewSession(activity, match)]
    ELSE IF st.session.project_id # match.project_id
    THEN [_end_session(cfg, st, st.session.last_active_time)
            EXCEPT !.session = NewSession(activity, match)]
    ELSE LET cur == st.session
             delta == activity.timestamp - cur.last_tracked_time
             duration == IF cur.last_tracked_time # NoTime /\ delta > 0
                         THEN cur.duration_seconds + delta
                         ELSE cur.duration_seconds
         IN  [st EXCEPT !.session =
                 [cur EXCEPT !.duration_seconds = duration,
                             !.last_tracked_time = activity.timestamp,
                             !.last_active_time = activity.timestamp,
                             !.triggered_by = match.triggered_by]]

\* the two grace periods exchanged
Grace_exchanged(cfg, activity) ==
    IF activity.idle THEN cfg.session_grace_period ELSE cfg.idle_grace_period

\* the grace (seconds) _handle_inactive applies to a sample
Grace(cfg, activity) ==
    IF activity.idle THEN cfg.idle_grace_period ELSE cfg.session_grace_period

\* _handle_inactive closing the session at the sample's timestamp
_handle_inactive_ends_at_sample(cfg, st, activity) ==
    IF st.session = None THEN st
    ELSE LET gap == [st EXCEPT !.session.last_tracked_time = NoTime]
             elapsed == activity.timestamp - gap.session.last_active_time
         IN  IF elapsed > Grace(cfg, activity) * Res
             THEN _end_session(cfg, gap, activity.timestamp)
             ELSE gap

\* _handle_inactive closing the session as soon as the grace is reached
_handle_inactive_at_grace(cfg, st, activity) ==
    IF st.session = None THEN st
    ELSE LET gap == [st EXCEPT !.session.last_tracked_time = NoTime]
             elapsed == activity.timestamp - gap.session.last_active_time
         IN  IF elapsed >= Grace(cfg, activity) * Res
             THEN _end_session(cfg, gap, gap.session.last_active_time)
             ELSE gap

\* _handle_inactive measuring the grace from the sample before, by moving
\* last_active_time to each sample that leaves the session open
_handle_inactive_restarts_grace(cfg, st, activity) ==
    IF st.session = None THEN st
    ELSE LET gap == [st EXCEPT !.session.last_tracked_time = NoTime]
             elapsed == activity.timestamp - gap.session.last_active_time
         IN  IF elapsed > Grace(cfg, activity) * Res
             THEN _end_session(cfg, gap, gap.session.last_active_time)
             ELSE [gap EXCEPT !.session.last_active_time = activity.timestamp]

\* _handle_inactive leaving last_tracked_time set during the gap
_handle_inactive_keeps_tracking(cfg, st, activity) ==
    IF st.session = None THEN st
    ELSE LET elapsed == activity.timestamp - st.session.last_active_time
         IN  IF elapsed > Grace(cfg, activity) * Res
             THEN _end_session(cfg, st, st.session.last_active_time)
             ELSE st

\* SessionManager._handle_inactive
_handle_inactive(cfg, st, activity) ==
    IF st.session = None THEN st
    ELSE LET gap == [st EXCEPT !.session.last_tracked_time = NoTime]
             elapsed == activity.timestamp - gap.session.last_active_time
         IN  IF elapsed > Grace(cfg, activity) * Res
             THEN _end_session(cfg, gap, gap.session.last_active_time)
             ELSE gap

\* _match_activity without the idle test
_match_activity_ignores_idle(snapshot, activity) ==
    rule_engine_match(snapshot, activity)

\* SessionManager._match_activity
_match_activity(snapshot, activity) ==
    IF activity.idle THEN None ELSE rule_engine_match(snapshot, activity)

\* process_activity's match without the tracking_paused test
MatchOf_ignores_pause(cfg, snapshot, activity) ==
    _match_activity(snapshot, activity)

\* the match process_activity works with
MatchOf(cfg, snapshot, activity) ==
    IF cfg.tracking_paused # 0 THEN None ELSE _match_activity(snapshot, activity)

\* SessionManager.process_activity
process_activity(cfg, snapshot, st, activity) ==
    LET match == MatchOf(cfg, snapshot, activity)
    IN  IF match = None THEN _handle_inactive(cfg, st, activity)
        ELSE _handle_active(cfg, st, activity, match)

\* current_duration adding the time since last_tracked_time whatever its sign
current_duration_signed(session, now) ==
    IF session = None THEN None
    ELSE LET delta == now - session.last_tracked_time
             duration == IF session.last_tracked_time # NoTime
                         THEN session.duration_seconds + delta
                         ELSE session.duration_seconds
         IN  Round(duration)

\* SessionManager.current_duration
current_duration(session, now) ==
    IF session = None THEN None
    ELSE LET delta == now - session.last_tracked_time
             duration == IF session.last_tracked_time # NoTime /\ delta > 0
                         THEN session.duration_seconds + delta
                         ELSE session.duration_seconds
         IN  Round(duration)

\* SessionManager.pause; end_time = NoTime is the default argument None
pause(cfg, st, end_time) ==
    IF st.session = None THEN st
    ELSE LET end == IF end_time # NoTime THEN end_time
                    ELSE st.session.last_active_time
         IN  _end_session(cfg, st, end)

\* shutdown closing the session at the time of the call
shutdown_ends_now(cfg, st, now) ==
    IF st.session = None THEN st
    ELSE _end_session(cfg, st, now)

\* SessionManager.shutdown
shutdown(cfg, st, now) ==
    IF st.session = None THEN st
    ELSE LET end_time == IF st.session.last_active_time = NoTime
                         THEN now ELSE st.session.last_active_time
         IN  _end_session(cfg, st, end_time)

(***************************************************************************)
(* The SessionManager as a state machine: one action per public method.    *)
(* call records the most recent call: the method, its argument, its return *)
(* value and the open session it found.  Samples arrive in non-decreasing  *)
(* timestamp order; clock is the timestamp of the latest one.              *)
(***************************************************************************)
\* the times a status query is made at: before, at and after the latest sample
QueryTimes == {clock - 1, clock, clock + 1} \cap Times

Manager == [session |-> current_session, log |-> sessions]

Call(op, arg, ret) == [op |-> op, arg |-> arg, ret |-> ret, before |-> current_session]

\* hist is kept from the samples alone, while a session is open: first and
\* last are the timestamps of the first and of the latest matching sample of
\* the session, sum the time between matching samples that followed one
\* another with no other sample in between, gap whether the latest sample
\* did not match
Track(h, before, after, activity, match) ==
    IF after = None THEN None
    ELSE IF match = None THEN [h EXCEPT !.gap = TRUE]
    ELSE IF before = None \/ before.project_id # match.project_id
    THEN [first |-> activity.timestamp, last |-> activity.timestamp,
          sum |-> 0, gap |-> FALSE]
    ELSE [first |-> h.first, last |-> activity.timestamp,
          sum |-> IF h.gap THEN h.sum
                  ELSE h.sum + Max(0, activity.timestamp - h.last),
          gap |-> FALSE]

\* a call that takes no sample keeps hist while the session stays open
Keep(h, after) == IF after = None THEN None ELSE h

\* the manager's state becomes st; the log is capped at MaxLog records
Becomes(st) ==
    /\ Len(sessions) < MaxLog \/ st.log = sessions
    /\ current_session' = st.session
    /\ sessions' = st.log

\* what run() acquires before the loop, in the order shutdown() gives it up
ReleaseOrder == <<"socket", "pid", "lock">>

Resources == {ReleaseOrder[i] : i \in 1..Len(ReleaseOrder)}

\* SessionManager(config): no open session, the rule snapshot loaded
Init ==
    /\ config \in Configs
    /\ current_session = None
    /\ sessions = <<>>
    /\ projects = Reload(DbProjects, DbRules)
    /\ call = Call("__init__", None, None)
    /\ clock = 0
    /\ settings = config
    /\ last_activity = None
    /\ running = TRUE
    /\ pc = "ipc"
    /\ hist = None
    /\ held = Resources
    /\ store = [projects |-> DbProjects, rules |-> DbRules]
    /\ reload = None
    /\ activity_blocks = <<>>
    /\ instances = [p \in Processes |-> IF p = 1 THEN "loop" ELSE "absent"]
    /\ flock = 1
    /\ tt_dir = [PID_PATH |-> 1, SOCK_PATH |-> 1]

ProcessActivity(activity) ==
    /\ activity.timestamp >= clock
    /\ clock' = activity.timestamp
    /\ Becomes(process_activity(config, projects, Manager, activity))
    /\ hist' = Track(hist, current_session, current_session', activity,
                     MatchOf(config, projects, activity))
    /\ call' = Call("process_activity", activity, None)
    /\ UNCHANGED <<config, projects, storeVars, hostVars, settings,
                   last_activity, running, pc, held>>

Pause(end_time) ==
    /\ Becomes(pause(config, Manager, end_time))
    /\ hist' = Keep(hist, current_session')
    /\ call' = Call("pause", end_time, None)
    /\ UNCHANGED <<config, projects, storeVars, hostVars, daemonVars>>

Shutdown(now) ==
    /\ Becomes(shutdown(config, Manager, now))
    /\ hist' = Keep(hist, current_session')
    /\ call' = Call("shutdown", now, None)
    /\ UNCHANGED <<config, projects, storeVars, hostVars, daemonVars>>

UpdateConfig(cfg) ==
    /\ config' = cfg
    /\ call' = Call("update_config", cfg, None)
    /\ UNCHANGED <<current_session, sessions, projects, storeVars, hostVars,
                   daemonVars, hist>>

\* current_duration storing what it computed in the open session
CurrentDuration_accrues(now) ==
    /\ call' = Call("current_duration", now, current_duration(current_session, now))
    /\ current_session' =
          IF current_session = None \/ current_session.last_tracked_time = NoTime
          THEN current_session
          ELSE [current_session EXCEPT
                  !.duration_seconds =
                      @ + Max(0, now - current_session.last_tracked_time),
                  !.last_tracked_time = Max(now, @)]
    /\ UNCHANGED <<config, sessions, projects, storeVars, hostVars,
                   daemonVars, hist>>

CurrentDuration(now) ==
    /\ call' = Call("current_duration", now, current_duration(current_session, now))
    /\ UNCHANGED <<config, current_session, sessions, projects, storeVars,
                   hostVars, daemonVars, hist>>

Next ==
    \/ \E activity \in Activities : ProcessActivity(activity)
    \/ \E end_time \in {clock, NoTime} : Pause(end_time)
    \/ Shutdown(clock)
    \/ \E cfg \in Configs : UpdateConfig(cfg)
    \/ \E now \in QueryTimes : CurrentDuration(now)

Spec == Init /\ [][Next]_vars

(***************************************************************************)
(* The SessionManager with a log that takes MaxRecords records, fed from   *)
(* two applications, one of each project.                                  *)
(***************************************************************************)
Editor ==
    [app_name |-> <<"C", "o", "d", "e">>, bundle_id |-> NoStr,
     window_title |-> NoStr, file_path |-> NoStr, url |-> NoStr]

MailClient ==
    [app_name |-> NoStr, bundle_id |-> <<"M", "a", "i", "l">>,
     window_title |-> <<"I", "n", "b">>, file_path |-> NoStr, url |-> NoStr]

TwoApplications ==
    {Activity(t, screen, idle) :
        t \in Times, screen \in {Editor, MailClient}, idle \in BOOLEAN}

\* the manager's state becomes st; the log is capped at MaxRecords records
Stores(st) ==
    /\ Len(sessions) < MaxRecords \/ st.log = sessions
    /\ current_session' = st.session
    /\ sessions' = st.log

LogProcessActivity(activity) ==
    /\ activity.timestamp >= clock
    /\ clock' = activity.timestamp
    /\ Stores(process_activity(config, projects, Manager, activity))
    /\ hist' = Track(hist, current_session, current_session', activity,
                     MatchOf(config, projects, activity))
    /\ call' = Call("process_activity", activity, None)
    /\ UNCHANGED <<config, projects, storeVars, hostVars, settings,
                   last_activity, running, pc, held>>

LogPause(end_time) ==
    /\ Stores(pause(config, Manager, end_time))
    /\ hist' = Keep(hist, current_session')
    /\ call' = Call("pause", end_time, None)
    /\ UNCHANGED <<config, projects, storeVars, hostVars, daemonVars>>

LogShutdown(now) ==
    /\ Stores(shutdown(config, Manager, now))
    /\ hist' = Keep(hist, current_session')
    /\ call' = Call("shutdown", now, None)
    /\ UNCHANGED <<config, projects, storeVars, hostVars, daemonVars>>

NextLog ==
    \/ \E activity \in TwoApplications : LogProcessActivity(activity)
    \/ \E end_time \in {clock, NoTime} : LogPause(end_time)
    \/ LogShutdown(clock)
    \/ \E cfg \in Configs : UpdateConfig(cfg)
    \/ \E now \in QueryTimes : CurrentDuration(now)

SpecLog == Init /\ [][NextLog]_vars

(***************************************************************************)
(* The SessionManager fed samples whose timestamps come in any order,      *)
(* duplicates included.  Time can then accrue without end; the accrued     *)
(* time is capped at MaxTime.  hist is not kept here.                      *)
(***************************************************************************)
AnyProcessActivity(activity) ==
    /\ clock' = activity.timestamp
    /\ Becomes(process_activity(config, projects, Manager, activity))
    /\ current_session' # None => current_session'.duration_seconds <= MaxTime
    /\ call' = Call("process_activity", activity, None)
    /\ UNCHANGED <<config, projects, storeVars, hostVars, settings,
                   last_activity, running, pc, held, hist>>

NextAnyOrder == \E activity \in TwoApplications : AnyProcessActivity(activity)

SpecAnyOrder == Init /\ [][NextAnyOrder]_vars

(***************************************************************************)
(* The SessionManager under a sampler that does not stop: the daemon loop  *)
(* sleeps a positive interval between two samples, so that a sample with a *)
(* later timestamp always arrives.  Matching samples arrive up to MaxTime; *)
(* the samples after MaxTime match nothing, and go on until the longest    *)
(* grace period has passed.  hist is not kept here.                        *)
(***************************************************************************)
Untracked ==
    [app_name |-> <<"T", "e", "r", "m">>, bundle_id |-> NoStr,
     window_title |-> <<"t", "o", "p">>, file_path |-> NoStr, url |-> NoStr]

\* the longest grace period (seconds) of the configurations
LongestGrace ==
    CHOOSE g \in {Grace(cfg, [idle |-> idle]) : cfg \in Configs, idle \in BOOLEAN} :
        \A cfg \in Configs, idle \in BOOLEAN : Grace(cfg, [idle |-> idle]) <= g

\* the first timestamp at which every grace period has passed since MaxTime
Horizon == MaxTime + LongestGrace * Res + 1

SamplerActivities ==
    {Activity(t, screen, FALSE) : t \in 0..Horizon, screen \in {Editor, Untracked}}
        \cup {Activity(t, Untracked, TRUE) : t \in 0..Horizon}

\* the log takes MaxLog records, and a session is open only while the log
\* has room for its record
Arrives(activity) ==
    LET st == process_activity(config, projects, Manager, activity)
    IN  /\ activity.timestamp >= clock
        /\ MatchOf(config, projects, activity) # None => activity.timestamp <= MaxTime
        /\ Len(st.log) <= MaxLog
        /\ st.session # None => Len(st.log) < MaxLog
        /\ clock' = activity.timestamp
        /\ current_session' = st.session
        /\ sessions' = st.log
        /\ call' = Call("process_activity", activity, None)
        /\ UNCHANGED <<config, projects, storeVars, hostVars, settings,
                       last_activity, running, pc, held, hist>>

\* a sample taken after the loop slept
LaterSample ==
    \E activity \in SamplerActivities :
        activity.timestamp > clock /\ Arrives(activity)

\* a sample with the timestamp of the one before it
SameTimeSample ==
    \E activity \in SamplerActivities :
        activity.timestamp = clock /\ Arrives(activity)

\* tracking is paused or resumed between two samples
SamplerConfig == \E cfg \in Configs : UpdateConfig(cfg)

NextSampler == LaterSample \/ SameTimeSample \/ SamplerConfig

SpecSampler == Init /\ [][NextSampler]_vars /\ WF_vars(LaterSample)

(***************************************************************************)
(* The SessionManager under one configuration, the one it was constructed  *)
(* with: samples of the three tracked applications, and of an untracked    *)
(* one with and without user input, then pause and shutdown.               *)
(***************************************************************************)
Samples ==
    {Activity(t, screen, FALSE) : t \in Times, screen \in Screens}
        \cup {Activity(t, Untracked, TRUE) : t \in Times}

NextSamples ==
    \/ \E activity \in Samples : ProcessActivity(activity)
    \/ Pause(NoTime)
    \/ Shutdown(clock)

SpecSamples == Init /\ [][NextSamples]_vars

(***************************************************************************)
(* The rule engine on its own: rule_matches applied to one rule and one    *)
(* activity, and a RuleEngine built over a rule table and asked for a      *)
(* match (as tt rules test does).                                          *)
(***************************************************************************)
\* what a descriptive field of an activity can hold
FieldValues == {NoStr, <<"A", "b">>, <<"b", "c">>}

\* the values of the rules: the empty string, literals in either case, a
\* pattern with a wildcard, a pattern re.compile rejects
RuleValues == {<<>>, <<"b">>, <<"a", "B">>, <<"A", ".">>, <<"(">>}

\* the eight rule types and one the engine does not know
RuleTypes == RULE_TYPES \cup {"title"}

RuleActivities ==
    {[timestamp |-> 0, app_name |-> a, bundle_id |-> b, window_title |-> w,
      file_path |-> f, url |-> u, idle |-> FALSE] :
        a \in FieldValues, b \in FieldValues, w \in FieldValues,
        f \in FieldValues, u \in FieldValues}

Rule(id, project_id, rule_type, rule_value, rule_group, enabled) ==
    [id |-> id, project_id |-> project_id, rule_type |-> rule_type,
     rule_value |-> rule_value, rule_group |-> rule_group, enabled |-> enabled]

Rules == {Rule(1, 1, t, v, 0, TRUE) : t \in RuleTypes, v \in RuleValues}

\* rule tables (rows in id order).  In the first, project 1 has two
\* ungrouped rules (ids 2 and 3) and a group made of rule 1.
UngroupedAndGroup == <<
    Rule(1, 1, "app_contains", <<"b">>, 1, 1),
    Rule(2, 1, "window_contains", <<"b">>, 0, 1),
    Rule(3, 1, "app_contains", <<"a", "B">>, 0, 1),
    Rule(4, 2, "url_contains", <<"b">>, 0, 1),
    Rule(5, 2, "url_contains", <<>>, 7, 1) >>

\* In the second, project 1 has groups 1 (rules 2, 3) and 2 (rules 1, 4);
\* project 2 has a group with a rule of unknown type, a group with an
\* invalid pattern, and group 4, whose rule 10 is disabled.
Groups == <<
    Rule(1, 1, "app_contains", <<"b">>, 2, 1),
    Rule(2, 1, "window_contains", <<"b">>, 1, 1),
    Rule(3, 1, "url_contains", <<"b">>, 1, 1),
    Rule(4, 1, "window_contains", <<"a", "B">>, 2, 1),
    Rule(5, 2, "app_contains", <<"b">>, 1, 1),
    Rule(6, 2, "title", <<"b">>, 1, 1),
    Rule(7, 2, "window_regex", <<"(">>, 3, 1),
    Rule(8, 2, "window_contains", <<"b">>, 3, 1),
    Rule(9, 2, "path_prefix", <<"b">>, 4, 1),
    Rule(10, 2, "url_contains", <<"a", "B">>, 4, 0) >>

\* In the third, project 1 has no rule at all.
SecondOnly == <<
    Rule(1, 2, "app_contains", <<"b">>, 0, 1),
    Rule(2, 2, "window_contains", <<"a", "B">>, 3, 1) >>

RuleTables == {DbRules, UngroupedAndGroup, Groups, SecondOnly}

\* the arguments of a call still to be made
Input(arg) == [op |-> "input", arg |-> arg, ret |-> None, before |-> None]

RuleInputs ==
    {[activity |-> activity, rule |-> rule] :
        activity \in RuleActivities, rule \in Rules}

MatchInputs ==
    {[rules |-> dbRules, activity |-> activity] :
        dbRules \in RuleTables, activity \in RuleActivities}

\* nothing but the call differs from Init; the configuration plays no part
InitRules ==
    /\ config = Config(1, 0, 0, 0)
    /\ current_session = None
    /\ sessions = <<>>
    /\ projects = Reload(DbProjects, DbRules)
    /\ call \in {Input(arg) : arg \in RuleInputs \cup MatchInputs}
    /\ clock = 0
    /\ settings = config
    /\ last_activity = None
    /\ running = TRUE
    /\ pc = "ipc"
    /\ hist = None
    /\ held = Resources
    /\ store = [projects |-> DbProjects, rules |-> DbRules]
    /\ reload = None
    /\ activity_blocks = <<>>
    /\ instances = [p \in Processes |-> IF p = 1 THEN "loop" ELSE "absent"]
    /\ flock = 1
    /\ tt_dir = [PID_PATH |-> 1, SOCK_PATH |-> 1]

\* rule_matches(activity, rule)
RuleMatches ==
    /\ call.op = "input"
    /\ call.arg \in RuleInputs
    /\ call' = Call("rule_matches", call.arg,
                    rule_matches(call.arg.activity, call.arg.rule))
    /\ UNCHANGED <<config, current_session, sessions, projects, storeVars,
                   hostVars, daemonVars, hist>>

\* RuleEngine(db).match(activity), the table rules of db holding call.arg.rules
EngineMatch ==
    /\ call.op = "input"
    /\ call.arg \in MatchInputs
    /\ call' = Call("match", call.arg,
                    Match(Reload(DbProjects, call.arg.rules), call.arg.activity))
    /\ UNCHANGED <<config, current_session, sessions, projects, storeVars,
                   hostVars, daemonVars, hist>>

NextRules == RuleMatches \/ EngineMatch

SpecRules == InitRules /\ [][NextRules]_vars

(***************************************************************************)
(* The rule engine and its store.  The command line edits the tables       *)
(* projects and rules at any time; reload() reads them with two queries,   *)
(* builds the new snapshot aside and assigns it last; match and            *)
(* process_activity read the snapshot the engine holds.                    *)
(***************************************************************************)
\* what a call returns when it raises
Raises == [raises |-> TRUE]

\* table projects after tt projects archive 1 and tt projects unarchive 3
ArchivedFirst == <<
    [id |-> 1, name |-> "Dev",  archived |-> 1],
    [id |-> 2, name |-> "Mail", archived |-> 0],
    [id |-> 3, name |-> "Old",  archived |-> 0] >>

\* table rules after rule 2 was removed, rules 3 and 4 disabled (rule 4
\* belongs to group 1 of project 2), rule 7 enabled and rule 8 added
EditedRules == <<
    DbRules[1],
    [DbRules[3] EXCEPT !.enabled = 0],
    [DbRules[4] EXCEPT !.enabled = 0],
    DbRules[5],
    DbRules[6],
    [DbRules[7] EXCEPT !.enabled = 1],
    Rule(8, 1, "window_contains", <<"t", "o", "p">>, 0, 1) >>

RuleStores ==
    {[projects |-> dbProjects, rules |-> dbRules] :
        dbProjects \in {DbProjects, ArchivedFirst},
        dbRules \in {DbRules, EditedRules}}

\* the samples the engine is asked about
EngineActivities == {Activity(clock, screen, FALSE) : screen \in Screens}

\* tt projects archive, tt rules add / remove / enable / disable
StoreChange(new) ==
    /\ store # new
    /\ store' = new
    /\ UNCHANGED <<config, current_session, sessions, projects, call,
                   daemonVars, hist, reload, activity_blocks, hostVars>>

\* reload(): the connection is open
ReloadOpen ==
    /\ reload = None
    /\ reload' = [stage |-> "open", projects |-> <<>>, rules |-> <<>>,
                  read |-> [projects |-> <<>>, rules |-> <<>>]]
    /\ UNCHANGED <<config, current_session, sessions, projects, call,
                   daemonVars, hist, store, activity_blocks, hostVars>>

\* reload(): the first query; read keeps the tables as they were when read
ReloadProjects ==
    /\ reload # None /\ reload.stage = "open"
    /\ reload' = [reload EXCEPT !.stage = "projects",
                                !.projects = FetchProjects(store.projects),
                                !.read.projects = store.projects]
    /\ UNCHANGED <<config, current_session, sessions, projects, call,
                   daemonVars, hist, store, activity_blocks, hostVars>>

\* a reload that empties the snapshot before it fills it again
ReloadRules_in_place ==
    /\ reload # None /\ reload.stage = "projects"
    /\ reload' = [reload EXCEPT !.stage = "rules",
                                !.rules = FetchRules(store.rules),
                                !.read.rules = store.rules]
    /\ projects' = BuildSnapshot(reload.projects, <<>>)
    /\ UNCHANGED <<config, current_session, sessions, call,
                   daemonVars, hist, store, activity_blocks, hostVars>>

\* reload(): the second query
ReloadRules ==
    /\ reload # None /\ reload.stage = "projects"
    /\ reload' = [reload EXCEPT !.stage = "rules",
                                !.rules = FetchRules(store.rules),
                                !.read.rules = store.rules]
    /\ UNCHANGED <<config, current_session, sessions, projects, call,
                   daemonVars, hist, store, activity_blocks, hostVars>>

\* whether the reload that completes follows, with no other call in
\* between, a completed reload that has read the same tables
Again ==
    /\ call.op = "reload"
    /\ call.ret = None
    /\ reload # None
    /\ call.arg.read = reload.read

\* a reload that adds what it fetched to the snapshot it finds
ReloadAssign_extends ==
    /\ reload # None /\ reload.stage = "rules"
    /\ projects' = projects \o BuildSnapshot(reload.projects, reload.rules)
    /\ reload' = None
    /\ call' = Call("reload", [read |-> reload.read, again |-> Again], None)
    /\ UNCHANGED <<config, current_session, sessions,
                   daemonVars, hist, store, activity_blocks, hostVars>>

\* reload(): rules_by_project is filled and self.projects assigned; the call
\* records the tables the reload has read
ReloadAssign ==
    /\ reload # None /\ reload.stage = "rules"
    /\ projects' = BuildSnapshot(reload.projects, reload.rules)
    /\ reload' = None
    /\ call' = Call("reload", [read |-> reload.read, again |-> Again], None)
    /\ UNCHANGED <<config, current_session, sessions,
                   daemonVars, hist, store, activity_blocks, hostVars>>

\* reload(): opening the connection or one of the queries raises
\* (sqlite3.Error); nothing was assigned
ReloadFails ==
    /\ IF reload = None THEN TRUE ELSE reload.stage \in {"open", "projects"}
    /\ reload' = None
    /\ call' = Call("reload", None, Raises)
    /\ UNCHANGED <<config, current_session, sessions, projects,
                   daemonVars, hist, store, activity_blocks, hostVars>>

\* a match that looks the rules up in the store
SnapshotMatch_from_store(activity) ==
    /\ call' = Call("match", activity,
                    Match(Reload(store.projects, store.rules), activity))
    /\ UNCHANGED <<config, current_session, sessions, projects,
                   daemonVars, hist, storeVars, hostVars>>

\* RuleEngine.match(activity) on the snapshot the engine holds, be a reload
\* under way or not
SnapshotMatch(activity) ==
    /\ call' = Call("match", activity, Match(projects, activity))
    /\ UNCHANGED <<config, current_session, sessions, projects,
                   daemonVars, hist, storeVars, hostVars>>

InitEngine ==
    /\ Init
    /\ config = Config(1, 0, 0, 0)

NextEngine ==
    \/ \E new \in RuleStores : StoreChange(new)
    \/ ReloadOpen
    \/ ReloadProjects
    \/ ReloadRules
    \/ ReloadAssign
    \/ ReloadFails
    \/ \E activity \in EngineActivities : SnapshotMatch(activity)
    \/ \E screen \in {Editor, MailClient} :
          ProcessActivity(Activity(clock, screen, FALSE))

SpecEngine == InitEngine /\ [][NextEngine]_vars

\* the engine while no sample is processed: the store is edited, reload()
\* runs and match is asked (tt rules test, tt status)
NextReload ==
    \/ \E new \in RuleStores : StoreChange(new)
    \/ ReloadOpen
    \/ ReloadProjects
    \/ ReloadRules
    \/ ReloadAssign
    \/ ReloadFails
    \/ \E activity \in EngineActivities : SnapshotMatch(activity)

SpecReload == InitEngine /\ [][NextReload]_vars

(***************************************************************************)
(* The engine over rules whose pattern the regex compiler does not take.   *)
(* re.search raises re.error for a pattern that is not well formed ("("    *)
(* stands for these) and OverflowError for a repetition count above the    *)
(* compiler's limit, as in a{4294967296} ("{" stands for these).  match is *)
(* followed rule by rule, in the order the code evaluates them.            *)
(***************************************************************************)
TooLarge(pattern) == \E i \in 1..Len(pattern) : pattern[i] = "{"

\* whether _regex_search lets an exception through: the field is present
\* and re.search raises something else than re.error
_regex_search_raises(haystack, pattern) ==
    haystack # NoStr /\ TooLarge(pattern)

\* whether rule_matches(activity, rule) raises
rule_matches_raises(activity, rule) ==
    IF rule.rule_type = "window_regex"
    THEN _regex_search_raises(activity.window_title, rule.rule_value)
    ELSE IF rule.rule_type = "url_regex"
    THEN _regex_search_raises(activity.url, rule.rule_value)
    ELSE FALSE

\* the loop over the ungrouped rules: the first rule that matches, None, or
\* Raises when a rule evaluated before any matched raises
RECURSIVE UngroupedOutcome(_, _)
UngroupedOutcome(activity, rules) ==
    IF rules = <<>> THEN None
    ELSE IF rule_matches_raises(activity, Head(rules)) THEN Raises
    ELSE IF rule_matches(activity, Head(rules)) THEN Head(rules)
    ELSE UngroupedOutcome(activity, Tail(rules))

\* all(rule_matches(activity, rule) for rule in rules_in_group), which
\* stops at the first rule that does not match
RECURSIVE AllOutcome(_, _)
AllOutcome(activity, rules_in_group) ==
    IF rules_in_group = <<>> THEN "all"
    ELSE IF rule_matches_raises(activity, Head(rules_in_group)) THEN "raises"
    ELSE IF ~rule_matches(activity, Head(rules_in_group)) THEN "not all"
    ELSE AllOutcome(activity, Tail(rules_in_group))

\* the loop over the groups
RECURSIVE GroupedOutcome(_, _, _)
GroupedOutcome(activity, grouped, group_ids) ==
    IF group_ids = <<>> THEN None
    ELSE LET group_id == Head(group_ids)
             InGroup(r) == r.rule_group = group_id
             rules_in_group == SortedById(SelectSeq(grouped, InGroup))
             all == AllOutcome(activity, rules_in_group)
         IN  IF all = "raises" THEN Raises
             ELSE IF all = "all"
             THEN [group_id |-> group_id, rules |-> rules_in_group]
             ELSE GroupedOutcome(activity, grouped, Tail(group_ids))

\* one iteration of the loop over projects
ProjectOutcome(project, activity) ==
    LET Ungrouped(r) == r.rule_group = 0
        Grouped(r) == r.rule_group # 0
        ungrouped == SelectSeq(project.rules, Ungrouped)
        grouped == SelectSeq(project.rules, Grouped)
        rule == UngroupedOutcome(activity, SortedById(ungrouped))
        group_ids == SortedInts({grouped[i].rule_group : i \in 1..Len(grouped)})
        group == GroupedOutcome(activity, grouped, group_ids)
    IN  IF rule = Raises THEN Raises
        ELSE IF rule # None
        THEN [project_id |-> project.id, triggered_by |-> RuleTrigger(rule)]
        ELSE IF group = Raises THEN Raises
        ELSE IF group # None
        THEN [project_id |-> project.id,
              triggered_by |-> GroupTrigger(group.group_id, group.rules)]
        ELSE None

\* RuleEngine.match: a MatchResult, None, or Raises
RECURSIVE MatchOutcome(_, _)
MatchOutcome(snapshot, activity) ==
    IF snapshot = <<>> THEN None
    ELSE LET m == ProjectOutcome(Head(snapshot), activity)
         IN  IF m # None THEN m ELSE MatchOutcome(Tail(snapshot), activity)

\* rule tables with an ungrouped regex rule the compiler rejects
NotWellFormed == <<
    Rule(1, 1, "window_regex", <<"(">>, 0, 1),
    Rule(2, 1, "app_contains", <<"b">>, 0, 1),
    Rule(3, 2, "url_contains", <<"b">>, 0, 1) >>

CountTooLarge == <<
    Rule(1, 1, "window_regex", <<"b", "{">>, 0, 1),
    Rule(2, 1, "app_contains", <<"b">>, 0, 1),
    Rule(3, 2, "url_contains", <<"b">>, 0, 1) >>

CountTooLargeLater == <<
    Rule(1, 1, "app_contains", <<"b">>, 0, 1),
    Rule(2, 2, "url_regex", <<"{">>, 0, 1),
    Rule(3, 2, "window_contains", <<"b">>, 0, 1) >>

PatternTables == {NotWellFormed, CountTooLarge, CountTooLargeLater}

PatternInputs ==
    {[rules |-> dbRules, activity |-> activity] :
        dbRules \in PatternTables, activity \in RuleActivities}

InitPatterns ==
    /\ config = Config(1, 0, 0, 0)
    /\ current_session = None
    /\ sessions = <<>>
    /\ projects = Reload(DbProjects, DbRules)
    /\ call \in {Input(arg) : arg \in PatternInputs}
    /\ clock = 0
    /\ settings = config
    /\ last_activity = None
    /\ running = TRUE
    /\ pc = "ipc"
    /\ hist = None
    /\ held = Resources
    /\ store = [projects |-> DbProjects, rules |-> call.arg.rules]
    /\ reload = None
    /\ activity_blocks = <<>>
    /\ instances = [p \in Processes |-> IF p = 1 THEN "loop" ELSE "absent"]
    /\ flock = 1
    /\ tt_dir = [PID_PATH |-> 1, SOCK_PATH |-> 1]

\* RuleEngine(db).match(activity), the table rules of db holding call.arg.rules
PatternMatch ==
    /\ call.op = "input"
    /\ call' = Call("match", call.arg,
                    MatchOutcome(Reload(store.projects, store.rules),
                                 call.arg.activity))
    /\ UNCHANGED <<config, current_session, sessions, projects, storeVars,
                   hostVars, daemonVars, hist>>

NextPatterns == PatternMatch

SpecPatterns == InitPatterns /\ [][NextPatterns]_vars

(***************************************************************************)
(* The activity blocks (tt_blocks.py): every sample either extends the     *)
(* last row of table activity_blocks or appends a row.                     *)
(***************************************************************************)
\* a comparison that leaves the idle flag out
_block_matches_ignores_idle(last, activity) ==
    /\ last.app_name = activity.app_name
    /\ last.bundle_id = activity.bundle_id
    /\ last.window_title = activity.window_title
    /\ last.file_path = activity.file_path
    /\ last.url = activity.url

_block_matches(last, activity) ==
    /\ last.app_name = activity.app_name
    /\ last.bundle_id = activity.bundle_id
    /\ last.window_title = activity.window_title
    /\ last.file_path = activity.file_path
    /\ last.url = activity.url
    /\ last.idle = (IF activity.idle THEN 1 ELSE 0)

\* update_activity_block over the rows of the table, in id order; ids are
\* given by AUTOINCREMENT
update_activity_block(blocks, activity) ==
    LET n == Len(blocks)
        last == blocks[n]
    IN  IF n > 0 /\ _block_matches(last, activity)
        THEN LET new_end == format_utc_timestamp(activity.timestamp)
                 start_dt == parse_utc_timestamp(last.start_time)
                 end_dt == parse_utc_timestamp(new_end)
                 duration == Round(end_dt - start_dt)
             IN  [blocks EXCEPT ![n] = [last EXCEPT !.end_time = new_end,
                                                    !.duration = duration]]
        ELSE Append(blocks,
                    [id |-> n + 1,
                     start_time |-> format_utc_timestamp(activity.timestamp),
                     end_time |-> format_utc_timestamp(activity.timestamp),
                     duration |-> 0,
                     app_name |-> activity.app_name,
                     bundle_id |-> activity.bundle_id,
                     window_title |-> activity.window_title,
                     file_path |-> activity.file_path,
                     url |-> activity.url,
                     idle |-> IF activity.idle THEN 1 ELSE 0])

\* the daemon loop hands each sample to update_activity_block, in the order
\* of their timestamps
UpdateActivityBlock(activity) ==
    /\ activity.timestamp >= clock
    /\ clock' = activity.timestamp
    /\ activity_blocks' = update_activity_block(activity_blocks, activity)
    /\ Len(activity_blocks') <= MaxBlocks
    /\ call' = Call("update_activity_block", activity, None)
    /\ UNCHANGED <<config, current_session, sessions, projects, settings,
                   last_activity, running, pc, held, hist, store, reload,
                   hostVars>>

NextBlocks == \E activity \in Activities : UpdateActivityBlock(activity)

SpecBlocks == InitEngine /\ [][NextBlocks]_vars

(***************************************************************************)
(* The daemon loop (TTDaemon.run): each iteration serves at most one IPC   *)
(* command, reloads the configuration, takes one sample and processes it,  *)
(* then sleeps.  datetime.now() is clock.                                  *)
(***************************************************************************)
Commands == {"", "PAUSE", "RESUME", "STATUS", "PING", "BOGUS"}

\* a payload that names the session the call before found, with the
\* duration of the session now open
status_payload_stale ==
    LET now == clock
        current == current_session
        shown == IF call.before # None THEN call.before ELSE current
        duration == current_duration(current_session, now)
        grace_remaining ==
            IF last_activity # None /\ last_activity.idle
            THEN Max(0, config.idle_grace_period
                        - ((now - current.last_active_time) \div Res))
            ELSE None
    IN  [tracking_paused |-> (config.tracking_paused # 0),
         last_activity |-> last_activity,
         session |-> IF current # None
                     THEN [project_id |-> shown.project_id,
                           triggered_by |-> shown.triggered_by,
                           duration |-> duration,
                           grace_remaining |-> grace_remaining]
                     ELSE None]

\* status_payload without the max(0, ...) around the remaining grace
status_payload_unclamped ==
    LET now == clock
        current == current_session
        duration == current_duration(current_session, now)
        grace_remaining ==
            IF last_activity # None /\ last_activity.idle
            THEN config.idle_grace_period
                    - ((now - current.last_active_time) \div Res)
            ELSE None
    IN  [tracking_paused |-> (config.tracking_paused # 0),
         last_activity |-> last_activity,
         session |-> IF current # None
                     THEN [project_id |-> current.project_id,
                           triggered_by |-> current.triggered_by,
                           duration |-> duration,
                           grace_remaining |-> grace_remaining]
                     ELSE None]

\* TTDaemon.status_payload
status_payload ==
    LET now == clock
        current == current_session
        duration == current_duration(current_session, now)
        grace_remaining ==
            IF last_activity # None /\ last_activity.idle
            THEN Max(0, config.idle_grace_period
                        - ((now - current.last_active_time) \div Res))
            ELSE None
    IN  [tracking_paused |-> (config.tracking_paused # 0),
         last_activity |-> last_activity,
         session |-> IF current # None
                     THEN [project_id |-> current.project_id,
                           triggered_by |-> current.triggered_by,
                           duration |-> duration,
                           grace_remaining |-> grace_remaining]
                     ELSE None]

\* TTDaemon.handle_ipc and process_ipc_command; command "" is no pending
\* connection
DaemonIpc(command) ==
    /\ pc = "ipc" /\ running
    /\ pc' = "poll"
    /\ IF command = ""
       THEN UNCHANGED <<settings, current_session, sessions, hist, call>>
       ELSE IF command = "PAUSE"
       THEN /\ settings' = [settings EXCEPT !.tracking_paused = 1]
            /\ Becomes(pause(config, Manager, clock))
            /\ hist' = Keep(hist, current_session')
            /\ call' = Call("PAUSE", clock, "OK")
       ELSE IF command = "RESUME"
       THEN /\ settings' = [settings EXCEPT !.tracking_paused = 0]
            /\ call' = Call("RESUME", None, "OK")
            /\ UNCHANGED <<current_session, sessions, hist>>
       ELSE IF command = "STATUS"
       THEN /\ call' = Call("STATUS", clock, status_payload)
            /\ UNCHANGED <<settings, current_session, sessions, hist>>
       ELSE IF command = "PING"
       THEN /\ call' = Call("PING", None, "OK")
            /\ UNCHANGED <<settings, current_session, sessions, hist>>
       ELSE /\ call' = Call(command, None, "ERROR:Unknown command")
            /\ UNCHANGED <<settings, current_session, sessions, hist>>
    /\ UNCHANGED <<config, projects, storeVars, hostVars, clock,
                   last_activity, running, held>>

\* load_config, update_config, get_current_activity, process_activity
DaemonPoll(screen, idle) ==
    /\ pc = "poll"
    /\ pc' = "sleep"
    /\ LET activity == Activity(clock, screen, idle) IN
        /\ config' = settings
        /\ last_activity' = activity
        /\ Becomes(process_activity(settings, projects, Manager, activity))
        /\ hist' = Track(hist, current_session, current_session', activity,
                         MatchOf(settings, projects, activity))
        /\ call' = Call("process_activity", activity, None)
    /\ UNCHANGED <<projects, storeVars, hostVars, clock, settings, running,
                   held>>

\* time.sleep(poll_interval)
DaemonSleep(interval) ==
    /\ pc = "sleep"
    /\ clock + interval <= MaxTime
    /\ clock' = clock + interval
    /\ pc' = "ipc"
    /\ UNCHANGED <<config, current_session, sessions, projects, storeVars,
                   hostVars, call, settings, last_activity, running, hist,
                   held>>

\* TTDaemon.handle_signal (SIGTERM, SIGINT)
DaemonSignal ==
    /\ pc # "stopped" /\ running
    /\ running' = FALSE
    /\ UNCHANGED <<config, current_session, sessions, projects, storeVars,
                   hostVars, call, clock, settings, last_activity, pc, hist,
                   held>>

\* TTDaemon.shutdown, reached when the loop finds running false: first the
\* session manager's shutdown
DaemonShutdown ==
    /\ pc = "ipc" /\ ~running
    /\ pc' = "release"
    /\ Becomes(shutdown(config, Manager, clock))
    /\ hist' = Keep(hist, current_session')
    /\ call' = Call("shutdown", clock, None)
    /\ UNCHANGED <<config, projects, storeVars, hostVars, clock, settings,
                   last_activity, running, held>>

\* the rest of TTDaemon.shutdown: the socket is closed and unlinked, the PID
\* file unlinked, the lock released, one after the other; run() then returns
DaemonRelease ==
    /\ pc = "release"
    /\ LET next == CHOOSE i \in 1..Len(ReleaseOrder) :
                    /\ ReleaseOrder[i] \in held
                    /\ \A j \in 1..(i - 1) : ReleaseOrder[j] \notin held
       IN  /\ held' = held \ {ReleaseOrder[next]}
           /\ flock' = IF ReleaseOrder[next] = "lock" THEN 0 ELSE flock
           /\ tt_dir' = IF ReleaseOrder[next] = "socket"
                        THEN [tt_dir EXCEPT !.SOCK_PATH = 0]
                        ELSE IF ReleaseOrder[next] = "pid"
                        THEN [tt_dir EXCEPT !.PID_PATH = 0]
                        ELSE tt_dir
           /\ pc' = IF held' = {} THEN "stopped" ELSE "release"
           /\ instances' = IF held' = {} THEN [instances EXCEPT ![1] = "exited"]
                                         ELSE instances
    /\ UNCHANGED <<config, current_session, sessions, projects, storeVars, call,
                   clock, settings, last_activity, running, hist>>

\* the command line changes table settings (tt config set, tt tracking ...)
SettingsChange(new) ==
    /\ pc # "stopped"
    /\ settings # new
    /\ settings' = new
    /\ UNCHANGED <<config, current_session, sessions, projects, storeVars,
                   hostVars, call, clock, last_activity, running, pc, hist,
                   held>>

NextDaemon ==
    \/ \E command \in Commands : DaemonIpc(command)
    \/ \E screen \in Screens, idle \in BOOLEAN : DaemonPoll(screen, idle)
    \/ \E interval \in 1..MaxSleep : DaemonSleep(interval)
    \/ DaemonSignal
    \/ DaemonShutdown
    \/ DaemonRelease
    \/ \E new \in Configs : SettingsChange(new)

SpecDaemon == Init /\ [][NextDaemon]_vars

\* time.sleep(poll_interval), the clock followed as far as MaxClock
DaemonSleepOn(interval) ==
    /\ pc = "sleep"
    /\ clock + interval <= MaxClock
    /\ clock' = clock + interval
    /\ pc' = "ipc"
    /\ UNCHANGED <<config, current_session, sessions, projects, storeVars,
                   hostVars, call, settings, last_activity, running, hist,
                   held>>

\* the loop asked for its status (tt status) while the editor or an
\* untracked application is on screen and the settings are edited
NextStatus ==
    \/ \E command \in {"", "STATUS"} : DaemonIpc(command)
    \/ \E screen \in {Editor, Untracked}, idle \in BOOLEAN : DaemonPoll(screen, idle)
    \/ \E interval \in 1..MaxSleep : DaemonSleepOn(interval)
    \/ \E new \in Configs : SettingsChange(new)

SpecStatus == Init /\ [][NextStatus]_vars

(***************************************************************************)
(* Several daemon processes (tt daemon start, launchd, a second terminal)  *)
(* and the lock on daemon.lock.  A process is absent until it is started,  *)
(* started until it has tried the lock, then refused (it exits with status *)
(* 1) or in setup, in its loop, stopping (a stop signal has arrived) and   *)
(* at last exited.  The loop of a process is followed by the actions of    *)
(* the daemon loop above; here only the lock matters.                      *)
(***************************************************************************)
\* the positions in which a process is monitoring or about to
Monitoring == {"setup", "loop", "stopping"}

\* TTDaemon(...).run() is entered in a new process
InstanceStart(p) ==
    /\ instances[p] = "absent"
    /\ instances' = [instances EXCEPT ![p] = "started"]
    /\ UNCHANGED <<config, current_session, sessions, projects, call,
                   daemonVars, hist, storeVars, flock, tt_dir>>

\* an acquire that takes the lock whoever holds it
InstanceAcquire_unlocked(p) ==
    /\ instances[p] = "started"
    /\ flock' = p
    /\ instances' = [instances EXCEPT ![p] = "setup"]
    /\ UNCHANGED <<config, current_session, sessions, projects, call,
                   daemonVars, hist, storeVars, tt_dir>>

\* a refused process leaving through TTDaemon.shutdown: it has no socket of
\* its own to close, and unlinks the PID file it finds
InstanceAcquire_refused_shuts_down(p) ==
    /\ instances[p] = "started"
    /\ IF flock = 0
       THEN /\ flock' = p
            /\ instances' = [instances EXCEPT ![p] = "setup"]
            /\ tt_dir' = tt_dir
       ELSE /\ flock' = flock
            /\ instances' = [instances EXCEPT ![p] = "refused"]
            /\ tt_dir' = [tt_dir EXCEPT !.PID_PATH = 0]
    /\ UNCHANGED <<config, current_session, sessions, projects, call,
                   daemonVars, hist, storeVars>>

\* SingleInstanceLock.acquire: flock(LOCK_EX | LOCK_NB) on a descriptor of
\* its own; it fails at once when another descriptor holds the lock, and
\* run() then exits
InstanceAcquire(p) ==
    /\ instances[p] = "started"
    /\ IF flock = 0
       THEN /\ flock' = p
            /\ instances' = [instances EXCEPT ![p] = "setup"]
       ELSE /\ flock' = flock
            /\ instances' = [instances EXCEPT ![p] = "refused"]
    /\ UNCHANGED <<config, current_session, sessions, projects, call,
                   daemonVars, hist, storeVars, tt_dir>>

\* signal handlers, socket and PID file are set up and the loop is entered:
\* setup_ipc_socket unlinks the socket it finds and binds its own, and the
\* PID file is written over
InstanceSetup(p) ==
    /\ instances[p] = "setup"
    /\ instances' = [instances EXCEPT ![p] = "loop"]
    /\ tt_dir' = [PID_PATH |-> p, SOCK_PATH |-> p]
    /\ UNCHANGED <<config, current_session, sessions, projects, call,
                   daemonVars, hist, storeVars, flock>>

\* a tick of the loop of the process that is monitoring: a sample of the
\* editor reaches its session manager
InstanceTick(p) ==
    /\ instances[p] = "loop"
    /\ Len(sessions) < MaxLog
    /\ \E idle \in BOOLEAN : ProcessActivity(Activity(clock, Editor, idle))

\* a stop signal: the loop ends at its next test of running
InstanceSignal(p) ==
    /\ instances[p] \in {"setup", "loop"}
    /\ instances' = [instances EXCEPT ![p] = "stopping"]
    /\ UNCHANGED <<config, current_session, sessions, projects, call,
                   daemonVars, hist, storeVars, flock, tt_dir>>

\* TTDaemon.shutdown: the session manager's shutdown, the socket and the
\* PID file unlinked, and at last self.lock.release()
InstanceShutdown(p) ==
    /\ instances[p] = "stopping"
    /\ Becomes(shutdown(config, Manager, clock))
    /\ hist' = Keep(hist, current_session')
    /\ call' = Call("shutdown", clock, None)
    /\ tt_dir' = [PID_PATH |-> 0, SOCK_PATH |-> 0]
    /\ flock' = IF flock = p THEN 0 ELSE flock
    /\ instances' = [instances EXCEPT ![p] = "exited"]
    /\ UNCHANGED <<config, projects, daemonVars, storeVars>>

\* no daemon process has been started
InitInstances ==
    /\ config = Config(1, 0, 0, 0)
    /\ current_session = None
    /\ sessions = <<>>
    /\ projects = Reload(DbProjects, DbRules)
    /\ call = Call("__init__", None, None)
    /\ clock = 0
    /\ settings = config
    /\ last_activity = None
    /\ running = FALSE
    /\ pc = "stopped"
    /\ hist = None
    /\ held = {}
    /\ store = [projects |-> DbProjects, rules |-> DbRules]
    /\ reload = None
    /\ activity_blocks = <<>>
    /\ instances = [p \in Processes |-> "absent"]
    /\ flock = 0
    /\ tt_dir = [PID_PATH |-> 0, SOCK_PATH |-> 0]

NextInstances ==
    \E p \in Processes :
        \/ InstanceStart(p)
        \/ InstanceAcquire(p)
        \/ InstanceSetup(p)
        \/ InstanceTick(p)
        \/ InstanceSignal(p)
        \/ InstanceShutdown(p)

SpecInstances == InitInstances /\ [][NextInstances]_vars

(***************************************************************************)
(* The daemon loop with ticks that raise: the storage (or anything else)   *)
(* fails in handle_ipc, in load_config, in the sampler, in save_activity   *)
(* or update_activity_block, in the INSERT of _end_session, or in the      *)
(* pruning and the backup that end the tick.                               *)
(***************************************************************************)
\* the calls of the loop that raised: handle_ipc, which catches what its
\* body raises, and the rest of a tick
Failed(c) == c.op \in {"handle_ipc", "tick"}

\* where a tick can raise after handle_ipc
Stages == {"load_config", "get_current_activity", "save_activity",
           "process_activity", "maintenance"}

\* whether the call reaches the INSERT of _end_session
Inserts(before, after) == Len(after.log) > Len(before.log)

\* process_activity clearing the open session although the INSERT raised
process_activity_raises_clears(cfg, snapshot, st, activity) ==
    [st EXCEPT !.session = None]

\* what process_activity leaves behind when the INSERT of _end_session
\* raises: _handle_inactive has set last_tracked_time to None, _handle_active
\* has changed nothing, and the session is still open
process_activity_raises(cfg, snapshot, st, activity) ==
    IF MatchOf(cfg, snapshot, activity) = None
    THEN [st EXCEPT !.session.last_tracked_time = NoTime]
    ELSE st

\* handle_ipc raises and catches it (warning "IPC error"): while receiving
\* or in set_setting, with nothing changed, or in the INSERT of pause(),
\* with table settings written and the session still open
DaemonIpcFails(command) ==
    /\ pc = "ipc" /\ running
    /\ pc' = "poll"
    /\ command \in {"PAUSE", "RESUME", "STATUS"}
    /\ \/ /\ call' = Call("handle_ipc", [command |-> command, at |-> NoTime], Raises)
          /\ UNCHANGED settings
       \/ /\ command = "PAUSE"
          /\ Inserts(Manager, pause(config, Manager, clock))
          /\ settings' = [settings EXCEPT !.tracking_paused = 1]
          /\ call' = Call("handle_ipc", [command |-> command, at |-> clock], Raises)
    /\ UNCHANGED <<config, current_session, sessions, projects, storeVars,
                   hostVars, clock, last_activity, running, held, hist>>

\* a tick whose exception leaves the loop for TTDaemon.shutdown
DaemonPollFails_leaves(stage, screen, idle) ==
    /\ pc = "poll"
    /\ pc' = "release"
    /\ running' = FALSE
    /\ call' = Call("tick", [stage |-> stage,
                             activity |-> Activity(clock, screen, idle)], Raises)
    /\ UNCHANGED <<config, current_session, sessions, projects, storeVars,
                   hostVars, clock, settings, last_activity, held, hist>>

\* the rest of a tick raises at stage: what was done before that stage
\* stays done, the exception is logged ("Error in main loop") and the loop
\* goes on to its next iteration without sleeping
DaemonPollFails(stage, screen, idle) ==
    /\ pc = "poll"
    /\ pc' = "ipc"
    /\ LET activity == Activity(clock, screen, idle)
           after == process_activity(settings, projects, Manager, activity)
           match == MatchOf(settings, projects, activity)
       IN  /\ call' = Call("tick", [stage |-> stage, activity |-> activity], Raises)
           /\ config' = IF stage = "load_config" THEN config ELSE settings
           /\ last_activity' =
                 IF stage \in {"load_config", "get_current_activity"}
                 THEN last_activity ELSE activity
           /\ IF stage = "process_activity"
              THEN /\ Inserts(Manager, after)
                   /\ Becomes(process_activity_raises(settings, projects,
                                                       Manager, activity))
                   /\ hist' = IF match = None
                              THEN [hist EXCEPT !.gap = TRUE] ELSE hist
              ELSE IF stage = "maintenance"
              THEN /\ Becomes(after)
                   /\ hist' = Track(hist, current_session, current_session',
                                    activity, match)
              ELSE UNCHANGED <<current_session, sessions, hist>>
    /\ UNCHANGED <<projects, storeVars, hostVars, clock, settings, running,
                   held>>

\* the loop with one configuration, fed from two applications
NextFaults ==
    \/ \E command \in {"", "PAUSE"} : DaemonIpc(command)
    \/ DaemonIpcFails("PAUSE")
    \/ \E screen \in {Editor, MailClient}, idle \in BOOLEAN :
          DaemonPoll(screen, idle)
    \/ \E stage \in Stages, screen \in {Editor, MailClient}, idle \in BOOLEAN :
          DaemonPollFails(stage, screen, idle)
    \/ \E interval \in 1..MaxSleep : DaemonSleep(interval)
    \/ DaemonSignal
    \/ DaemonShutdown
    \/ DaemonRelease

SpecFaults == InitEngine /\ [][NextFaults]_vars

(***************************************************************************)
(* The SessionManager over a storage that can fail: the INSERT of          *)
(* _end_session (or the commit that follows it) raises, and the exception  *)
(* leaves process_activity, pause or shutdown for the caller.  The calls   *)
(* that raised are recorded with ret = Raises.                             *)
(***************************************************************************)
\* what pause leaves behind when the INSERT raises: the exception passes
\* line 116, the session is still open
pause_raises(cfg, st, end_time) == st

\* what shutdown leaves behind when the INSERT raises
shutdown_raises(cfg, st, now) == st

ProcessActivityFails(activity) ==
    /\ activity.timestamp >= clock
    /\ Len(sessions) < MaxLog
    /\ Inserts(Manager, process_activity(config, projects, Manager, activity))
    /\ clock' = activity.timestamp
    /\ Becomes(process_activity_raises(config, projects, Manager, activity))
    /\ hist' = IF MatchOf(config, projects, activity) = None
               THEN [hist EXCEPT !.gap = TRUE] ELSE hist
    /\ call' = Call("process_activity", activity, Raises)
    /\ UNCHANGED <<config, projects, storeVars, hostVars, settings,
                   last_activity, running, pc, held>>

PauseFails(end_time) ==
    /\ Len(sessions) < MaxLog
    /\ Inserts(Manager, pause(config, Manager, end_time))
    /\ Becomes(pause_raises(config, Manager, end_time))
    /\ call' = Call("pause", end_time, Raises)
    /\ UNCHANGED <<config, projects, storeVars, hostVars, daemonVars, hist>>

ShutdownFails(now) ==
    /\ Len(sessions) < MaxLog
    /\ Inserts(Manager, shutdown(config, Manager, now))
    /\ Becomes(shutdown_raises(config, Manager, now))
    /\ call' = Call("shutdown", now, Raises)
    /\ UNCHANGED <<config, projects, storeVars, hostVars, daemonVars, hist>>

NextStorage ==
    \/ \E activity \in TwoApplications : ProcessActivity(activity)
    \/ \E activity \in TwoApplications : ProcessActivityFails(activity)
    \/ \E end_time \in {clock, NoTime} : Pause(end_time)
    \/ \E end_time \in {clock, NoTime} : PauseFails(end_time)
    \/ Shutdown(clock)
    \/ ShutdownFails(clock)
    \/ \E cfg \in Configs : UpdateConfig(cfg)

SpecStorage == Init /\ [][NextStorage]_vars

(***************************************************************************)
(* Properties.                                                             *)
(***************************************************************************)
Last(s) == s[Len(s)]

\* the step is process_activity(call'.arg)
SampleStep == call'.op = "process_activity" /\ ProcessActivity(call'.arg)

\* the record of a session that opened at first, was last active at last and
\* accumulated sum
RecordOf(session, first, last, sum) ==
    [project_id |-> session.project_id,
     start_time |-> format_utc_timestamp(first),
     end_time |-> format_utc_timestamp(last),
     duration |-> Round(sum),
     triggered_by |-> session.triggered_by]

\* C1: every record written to the session log has a rounded duration of at
\* least the min_session_duration in force when it is written, and a step
\* that starts with an open session whose rounded duration is below the
\* minimum writes nothing.
C1_MinDurationInForce ==
    [][ /\ \A i \in (Len(sessions) + 1)..Len(sessions') :
              sessions'[i].duration >= config.min_session_duration
        /\ ( /\ current_session # None
             /\ Round(current_session.duration_seconds) < config.min_session_duration )
           => sessions' = sessions ]_vars

\* a session of 1.5 s, rounded to 2 s, was written under a minimum of 2 s
C1_Witness ==
    /\ call.op \in {"process_activity", "pause", "shutdown"}
    /\ call.before # None
    /\ call.before.duration_seconds = 3
    /\ current_session = None
    /\ config.min_session_duration = 2
    /\ Len(sessions) = 1
    /\ sessions[1].duration = 2

\* C2: when an idle sample closes a session (the idle grace has expired), the
\* record written has the timestamp of the session's first matching sample
\* as start_time, the timestamp of its last matching sample as end_time and
\* the time between consecutive matching samples as duration: nothing after
\* the last matching sample is counted.
C2_IdleExpiryRecord ==
    [][ ( /\ SampleStep
          /\ call'.arg.idle
          /\ current_session # None
          /\ current_session' = None )
        => IF Round(hist.sum) >= config.min_session_duration
           THEN sessions' = Append(sessions,
                    RecordOf(current_session, hist.first, hist.last, hist.sum))
           ELSE sessions' = sessions ]_vars

\* the scenario of the test suite, at the scale of the model: matching at 0 s
\* and 1 s, idle within the grace, idle beyond it; the record is 0 s..1 s, 1 s
C2_Witness ==
    /\ call.op = "process_activity"
    /\ call.arg.idle
    /\ call.before # None
    /\ call.before.start_time = 0
    /\ call.before.last_active_time = Res
    /\ call.before.last_tracked_time = NoTime
    /\ call.arg.timestamp > call.before.last_active_time
    /\ current_session = None
    /\ Len(sessions) = 1
    /\ sessions[1].start_time = 0
    /\ sessions[1].end_time = 1
    /\ sessions[1].duration = 1

\* C3: a matching sample for another project than the open session's closes
\* that session at its own last matching sample (end_time) with the time it
\* had accumulated, and opens a session for the new project that starts at
\* the new sample with duration 0: the time between the two is in neither.
C3_ProjectSwitch ==
    [][ ( /\ SampleStep
          /\ current_session # None
          /\ MatchOf(config, projects, call'.arg) # None
          /\ MatchOf(config, projects, call'.arg).project_id
                # current_session.project_id )
        => /\ IF Round(hist.sum) >= config.min_session_duration
              THEN sessions' = Append(sessions,
                       RecordOf(current_session, hist.first, hist.last, hist.sum))
              ELSE sessions' = sessions
           /\ current_session' # None
           /\ current_session'.project_id
                = MatchOf(config, projects, call'.arg).project_id
           /\ current_session'.start_time = call'.arg.timestamp
           /\ current_session'.duration_seconds = 0 ]_vars

\* project 1 was last active at 0.5 s, the sample for project 2 came 1 s
\* later: the record ends at 0 s, the new session starts at 1.5 s
C3_Witness ==
    /\ call.op = "process_activity"
    /\ call.before # None
    /\ call.before.project_id = 1
    /\ call.before.last_active_time = 1
    /\ call.arg.timestamp = 3
    /\ current_session # None
    /\ current_session.project_id = 2
    /\ current_session.start_time = 3
    /\ Len(sessions) = 1
    /\ sessions[1].project_id = 1
    /\ sessions[1].end_time = 0

\* C4: the daemon's PAUSE command, received while a session is open, closes
\* the session at once, and the record it writes ends at the session's last
\* active timestamp.
C4_PauseEndsAtLastActive ==
    [][ (DaemonIpc("PAUSE") /\ current_session # None)
        => /\ current_session' = None
           /\ sessions' # sessions
              => Last(sessions').end_time
                    = format_utc_timestamp(current_session.last_active_time) ]_vars

C6_AtMostOneRecord ==
    [][ SampleStep
        => \/ sessions' = sessions
           \/ /\ Len(sessions') = Len(sessions) + 1
              /\ SubSeq(sessions', 1, Len(sessions)) = sessions ]_vars

\* a project switch: one session written, another opened, in one call
C6_Witness ==
    /\ call.op = "process_activity"
    /\ call.before # None
    /\ current_session # None
    /\ current_session.project_id # call.before.project_id
    /\ Len(sessions) = 1
    /\ sessions[1].project_id = call.before.project_id
    /\ sessions[1].triggered_by = call.before.triggered_by

\* C7: a non-matching sample closes the open session if and only if the time
\* since last_active_time is strictly greater than the grace; the record then
\* ends at last_active_time; otherwise the session stays open, unchanged but
\* for last_tracked_time, which is null.
C7_GraceIsStrict ==
    [][ ( /\ SampleStep
          /\ current_session # None
          /\ MatchOf(config, projects, call'.arg) = None )
        => LET elapsed == call'.arg.timestamp - current_session.last_active_time
               closed == elapsed > Grace(config, call'.arg) * Res
           IN  /\ closed <=> current_session' = None
               /\ closed =>
                    \/ sessions' = sessions
                    \/ /\ sessions' = Append(sessions, Last(sessions'))
                       /\ Last(sessions').end_time
                            = format_utc_timestamp(current_session.last_active_time)
               /\ ~closed =>
                    /\ current_session'
                         = [current_session EXCEPT !.last_tracked_time = NoTime]
                    /\ sessions' = sessions ]_vars

\* a sample arriving exactly when the grace (of 1 s) is reached: the session
\* stays open
C7_Witness ==
    /\ call.op = "process_activity"
    /\ call.before # None
    /\ MatchOf(config, projects, call.arg) = None
    /\ Grace(config, call.arg) = 1
    /\ call.arg.timestamp - call.before.last_active_time = Res
    /\ current_session # None
    /\ current_session.last_tracked_time = NoTime
    /\ current_session.duration_seconds = call.before.duration_seconds

\* C8: which grace a non-matching sample is measured against depends on its
\* idle flag alone: idle_grace_period if it is idle, session_grace_period if
\* it is not (also when it is non-matching only because tracking is paused),
\* whatever samples came before it in the gap.
C8_GraceByIdleFlag ==
    [][ ( /\ SampleStep
          /\ current_session # None
          /\ \/ call'.arg.idle
             \/ config.tracking_paused # 0
             \/ Match(projects, call'.arg) = None )
        => LET elapsed == call'.arg.timestamp - current_session.last_active_time
           IN  /\ call'.arg.idle
                  => (current_session' = None
                        <=> elapsed > config.idle_grace_period * Res)
               /\ ~call'.arg.idle
                  => (current_session' = None
                        <=> elapsed > config.session_grace_period * Res) ]_vars

\* tracking is paused and a sample that is not idle, and that the rules match,
\* closes a session already in a gap: the time elapsed is beyond the session
\* grace and within the idle grace
C8_Witness ==
    /\ call.op = "process_activity"
    /\ ~call.arg.idle
    /\ config.tracking_paused # 0
    /\ Match(projects, call.arg) # None
    /\ call.before # None
    /\ call.before.last_tracked_time = NoTime
    /\ call.arg.timestamp - call.before.last_active_time
          > config.session_grace_period * Res
    /\ call.arg.timestamp - call.before.last_active_time
          <= config.idle_grace_period * Res
    /\ current_session = None

\* C9: while tracking_paused is set in the configuration in force,
\* process_activity opens no session, and an open session is closed or stays
\* as it is, but for last_tracked_time, which is null: no time accrues and
\* last_active_time and triggered_by are not refreshed.
C9_PausedNeverMatches ==
    [][ (SampleStep /\ config.tracking_paused # 0)
        => /\ current_session = None => current_session' = None
           /\ current_session # None
              => \/ current_session' = None
                 \/ current_session'
                      = [current_session EXCEPT !.last_tracked_time = NoTime] ]_vars

\* tracking is paused; a sample that is not idle and that the rules match to
\* the open session's project, by another rule, leaves the session frozen
C9_Witness ==
    /\ call.op = "process_activity"
    /\ config.tracking_paused # 0
    /\ ~call.arg.idle
    /\ call.before # None
    /\ call.before.last_tracked_time # NoTime
    /\ Match(projects, call.arg) # None
    /\ Match(projects, call.arg).project_id = call.before.project_id
    /\ Match(projects, call.arg).triggered_by # call.before.triggered_by
    /\ current_session = [call.before EXCEPT !.last_tracked_time = NoTime]

\* C10: a sample with the idle flag set opens no session, and an open session
\* is closed or stays as it is, but for last_tracked_time, which is null,
\* whatever the sample's other fields are.
C10_IdleNeverMatches ==
    [][ (SampleStep /\ call'.arg.idle)
        => /\ current_session = None => current_session' = None
           /\ current_session # None
              => \/ current_session' = None
                 \/ current_session'
                      = [current_session EXCEPT !.last_tracked_time = NoTime] ]_vars

\* tracking is not paused; an idle sample whose fields the rules match
\* leaves the accruing session frozen
C10_Witness ==
    /\ call.op = "process_activity"
    /\ config.tracking_paused = 0
    /\ call.arg.idle
    /\ Match(projects, call.arg) # None
    /\ call.before # None
    /\ call.before.last_tracked_time # NoTime
    /\ call.arg.timestamp > call.before.last_active_time
    /\ current_session = [call.before EXCEPT !.last_tracked_time = NoTime]

\* C11: when the daemon stops, the session manager's shutdown comes first: it
\* leaves no session open, and a session that was open is written to the log
\* from its first matching sample to its last one (its last_active_time, not
\* the time of the shutdown) if its rounded duration reaches the minimum, and
\* dropped otherwise; the socket, the PID file and the lock are all still held
\* then, and each is given up only later, with no session open and the log
\* left as it is.
C11_ShutdownFinalizesFirst ==
    [][ /\ (pc = "ipc" /\ pc' = "release")
           => /\ current_session' = None
              /\ held = Resources /\ held' = Resources
              /\ IF current_session # None
                    /\ Round(hist.sum) >= config.min_session_duration
                 THEN sessions' = Append(sessions,
                          RecordOf(current_session, hist.first, hist.last, hist.sum))
                 ELSE sessions' = sessions
        /\ held' # held
           => /\ pc = "release"
              /\ current_session = None /\ current_session' = None
              /\ sessions' = sessions
        /\ pc' = "stopped" => current_session' = None /\ held' = {} ]_vars

\* the daemon has stopped and holds nothing; its shutdown, later than the
\* second of the session's last matching sample, found the session open and
\* wrote it with that sample's second as end_time
C11_Witness ==
    /\ pc = "stopped"
    /\ held = {}
    /\ call.op = "shutdown"
    /\ call.before # None
    /\ current_session = None
    /\ Len(sessions) = 1
    /\ sessions[1].end_time = format_utc_timestamp(call.before.last_active_time)
    /\ format_utc_timestamp(call.arg) > sessions[1].end_time

\* C12: a sample never lowers the accrued time of the session it finds open
\* and leaves open: a sample matching the session's project adds the time
\* since last_tracked_time if that time is positive and last_tracked_time is
\* set, and nothing otherwise (a duplicate or an earlier timestamp adds
\* zero); a sample that does not match adds nothing.
C12_DurationNeverDecreases ==
    [][ ( /\ call'.op = "process_activity"
          /\ current_session # None
          /\ current_session' # None )
        => LET match == MatchOf(config, projects, call'.arg)
               since == call'.arg.timestamp - current_session.last_tracked_time
           IN  \/ /\ match # None
                  /\ match.project_id # current_session.project_id
               \/ /\ match # None
                  /\ match.project_id = current_session.project_id
                  /\ current_session'.duration_seconds
                        >= current_session.duration_seconds
                  /\ current_session'.duration_seconds
                        = current_session.duration_seconds
                          + (IF current_session.last_tracked_time = NoTime
                             THEN 0 ELSE Max(0, since))
               \/ /\ match = None
                  /\ current_session'.duration_seconds
                        = current_session.duration_seconds ]_vars

\* a matching sample with a timestamp before last_tracked_time found a
\* session with time accrued, and left the accrued time as it was
C12_Witness ==
    /\ call.op = "process_activity"
    /\ call.before # None
    /\ call.before.last_tracked_time # NoTime
    /\ call.arg.timestamp < call.before.last_tracked_time
    /\ call.before.duration_seconds > 0
    /\ current_session # None
    /\ current_session.project_id = call.before.project_id
    /\ current_session.last_tracked_time = call.arg.timestamp
    /\ current_session.duration_seconds = call.before.duration_seconds

\* C13: no call of process_activity, pause, shutdown, update_config or
\* current_duration removes or changes a record of the session log: the log
\* after the call is the log before it, with the records the call wrote
\* appended.
C13_LogAppendOnly ==
    [][ /\ Len(sessions') >= Len(sessions)
        /\ SubSeq(sessions', 1, Len(sessions)) = sessions ]_vars

\* a second record of the same project was appended to the log and the first
\* one is still there
C13_Witness ==
    /\ Len(sessions) = 2
    /\ sessions[1].project_id = sessions[2].project_id
    /\ sessions[1].end_time <= sessions[2].start_time
    /\ call.op \in {"process_activity", "pause", "shutdown"}
    /\ call.before # None
    /\ current_session = None

\* C14: the manager has one session or none, and a session does not vanish
\* under a new one: a step after which the open session is another one than
\* before (none before, or another project or start) is a call of
\* process_activity with a matching sample; the new session is the one that
\* sample opens, and the session that was open, if any, has been ended in
\* that step: written to the log if its rounded duration reaches the
\* minimum, dropped if it does not.
C14_NeverOverwritten ==
    [][ ( /\ current_session' # None
          /\ \/ current_session = None
             \/ current_session'.project_id # current_session.project_id
             \/ current_session'.start_time # current_session.start_time )
        => /\ call'.op = "process_activity"
           /\ MatchOf(config, projects, call'.arg) # None
           /\ current_session'.project_id
                = MatchOf(config, projects, call'.arg).project_id
           /\ current_session'.start_time = call'.arg.timestamp
           /\ current_session'.duration_seconds = 0
           /\ current_session = None => sessions' = sessions
           /\ current_session # None
              => IF Round(current_session.duration_seconds)
                      >= config.min_session_duration
                 THEN sessions' = Append(sessions,
                          RecordOf(current_session, current_session.start_time,
                                   current_session.last_active_time,
                                   current_session.duration_seconds))
                 ELSE sessions' = sessions ]_vars

\* a sample of another project found a session below the minimum open: the
\* session was dropped, nothing written, and the new one opened
C14_Witness ==
    /\ call.op = "process_activity"
    /\ call.before # None
    /\ Round(call.before.duration_seconds) < config.min_session_duration
    /\ current_session # None
    /\ current_session.project_id # call.before.project_id
    /\ current_session.start_time = call.arg.timestamp
    /\ sessions = <<>>

\* C15: a call of current_duration changes nothing: the open session (all
\* its fields), the configuration, the rule snapshot and the session log are
\* after the call what they were before it, whatever now is, and the value
\* returned is computed from that state.
C15_QueryReadOnly ==
    [][ call'.op = "current_duration"
        => /\ current_session' = current_session
           /\ config' = config
           /\ sessions' = sessions
           /\ projects' = projects
           /\ call'.before = current_session
           /\ call'.ret = current_duration(current_session', call'.arg) ]_vars

\* a query for a time after last_tracked_time returned more than the time
\* accrued in the session, and the session is as the query found it
C15_Witness ==
    /\ call.op = "current_duration"
    /\ call.before # None
    /\ call.before.last_tracked_time # NoTime
    /\ call.arg > call.before.last_tracked_time
    /\ call.ret > Round(call.before.duration_seconds)
    /\ current_session = call.before

\* the activity with every descriptive field in lower case
LowerActivity(activity) ==
    [activity EXCEPT !.app_name = _norm(@), !.bundle_id = _norm(@),
                     !.window_title = _norm(@), !.file_path = _norm(@),
                     !.url = _norm(@)]

\* the field of the activity a rule of the given type looks at is absent
FieldAbsent(activity, rule_type) ==
    CASE rule_type = "app" -> activity.app_name = NoStr /\ activity.bundle_id = NoStr
      [] rule_type = "app_contains" -> activity.app_name = NoStr
      [] rule_type \in {"window_contains", "window_regex"} -> activity.window_title = NoStr
      [] rule_type \in {"path_prefix", "path_contains"} -> activity.file_path = NoStr
      [] rule_type \in {"url_contains", "url_regex"} -> activity.url = NoStr
      [] OTHER -> FALSE

\* C16: rule_matches gives the same result when the rule value and every
\* field of the activity are put in lower case, for every rule type: the
\* letter case of neither plays a part.
C16_CaseInsensitive ==
    call.op = "rule_matches"
    => call.ret = rule_matches(LowerActivity(call.arg.activity),
                               [call.arg.rule EXCEPT !.rule_value = Lower(@)])

\* C17: rule_matches returns a Boolean, and FALSE when the field the rule's
\* type looks at is absent (for an app rule: the application name and the
\* bundle id both), whatever the rule value and the other fields are.
C17_AbsentFieldNoMatch ==
    call.op = "rule_matches"
    => /\ call.ret \in BOOLEAN
       /\ FieldAbsent(call.arg.activity, call.arg.rule.rule_type)
          => call.ret = FALSE

\* a window_contains rule with the empty string as value, which every
\* window title contains, and an activity with no window title but with an
\* application name
C17_Witness ==
    /\ call.op = "rule_matches"
    /\ call.arg.rule.rule_type = "window_contains"
    /\ call.arg.rule.rule_value = <<>>
    /\ call.arg.activity.window_title = NoStr
    /\ call.arg.activity.app_name # NoStr
    /\ call.ret = FALSE

\* C18: an app rule matches exactly when its value is, letter case aside,
\* the application name or the bundle id of the activity: one of the two is
\* enough, whatever the other one is, absent or not.
C18_AppNameOrBundle ==
    (call.op = "rule_matches" /\ call.arg.rule.rule_type = "app")
    => LET activity == call.arg.activity
           value == call.arg.rule.rule_value
       IN  call.ret <=>
             \/ /\ activity.app_name # NoStr
                /\ Lower(activity.app_name) = Lower(value)
             \/ /\ activity.bundle_id # NoStr
                /\ Lower(activity.bundle_id) = Lower(value)

\* the bundle id is the rule value in another letter case, and there is no
\* application name
C18_Witness ==
    /\ call.op = "rule_matches"
    /\ call.arg.rule.rule_type = "app"
    /\ call.arg.activity.app_name = NoStr
    /\ call.arg.activity.bundle_id # NoStr
    /\ call.arg.activity.bundle_id # call.arg.rule.rule_value
    /\ call.ret = TRUE

\* the enabled rows of a rule table that belong to a project
RowsOf(rows, project_id) ==
    {rows[i] : i \in {k \in 1..Len(rows) :
        rows[k].enabled = 1 /\ rows[k].project_id = project_id}}

\* the ungrouped rules of the project that match the activity
UngroupedMatching(rows, project_id, activity) ==
    {r \in RowsOf(rows, project_id) : r.rule_group = 0 /\ rule_matches(activity, r)}

\* the groups of the project all of whose rules match the activity
GroupsSatisfied(rows, project_id, activity) ==
    {g \in {r.rule_group : r \in RowsOf(rows, project_id)} \ {0} :
        \A r \in RowsOf(rows, project_id) :
            r.rule_group = g => rule_matches(activity, r)}

\* the rows of a group of a project, in id order
GroupRows(rows, project_id, group_id) ==
    LET Mine(r) == /\ r.enabled = 1 /\ r.project_id = project_id
                   /\ r.rule_group = group_id
    IN  SortedById(SelectSeq(rows, Mine))

LiveProjects ==
    {DbProjects[i].id : i \in {k \in 1..Len(DbProjects) : DbProjects[k].archived = 0}}

\* C19: when an ungrouped rule of some project matches, the engine returns a
\* match; and when ungrouped rules of the project returned match, the match
\* is triggered by the one of them with the lowest id, named by its type and
\* value, whether or not a group of that project is satisfied too and
\* whatever the ids of the group's rules are.
C19_UngroupedFirst ==
    call.op = "match"
    => LET rows == call.arg.rules
           activity == call.arg.activity
       IN  /\ (\E p \in LiveProjects : UngroupedMatching(rows, p, activity) # {})
              => call.ret # None
           /\ call.ret # None
              => LET matching == UngroupedMatching(rows, call.ret.project_id, activity)
                 IN  matching # {}
                     => \E r \in matching :
                          /\ \A q \in matching : r.id <= q.id
                          /\ call.ret.triggered_by = RuleTrigger(r)

\* rule 3, ungrouped, is the only ungrouped rule that matches; the group
\* made of rule 1 is satisfied too; the match is triggered by rule 3
C19_Witness ==
    /\ call.op = "match"
    /\ call.arg.rules = UngroupedAndGroup
    /\ GroupsSatisfied(call.arg.rules, 1, call.arg.activity) = {1}
    /\ UngroupedMatching(call.arg.rules, 1, call.arg.activity) = {UngroupedAndGroup[3]}
    /\ call.ret # None
    /\ call.ret.project_id = 1
    /\ call.ret.triggered_by = RuleTrigger(UngroupedAndGroup[3])

\* C20: the engine returns a match only for a project that has a matching
\* ungrouped rule or a group all of whose rules match; with no ungrouped
\* rule matching, the match is triggered by the satisfied group with the
\* lowest group id, named by all its rules in id order; a group with a rule
\* that does not match (an unknown type and an invalid pattern never do) is
\* not satisfied; with nothing matching in any project there is no match.
C20_GroupNeedsAll ==
    call.op = "match"
    => LET rows == call.arg.rules
           activity == call.arg.activity
           Hit(p) == \/ UngroupedMatching(rows, p, activity) # {}
                     \/ GroupsSatisfied(rows, p, activity) # {}
       IN  /\ (call.ret # None) <=> (\E p \in LiveProjects : Hit(p))
           /\ call.ret # None
              => LET p == call.ret.project_id
                     satisfied == GroupsSatisfied(rows, p, activity)
                 IN  /\ p \in LiveProjects
                     /\ Hit(p)
                     /\ UngroupedMatching(rows, p, activity) = {}
                        => \E g \in satisfied :
                             /\ \A h \in satisfied : g <= h
                             /\ call.ret.triggered_by
                                  = GroupTrigger(g, GroupRows(rows, p, g))

\* groups 1 and 2 of project 1 are both satisfied; the match is triggered by
\* group 1, whose rules have the ids 2 and 3, and not by group 2 with rule 1
C20_Witness ==
    /\ call.op = "match"
    /\ call.arg.rules = Groups
    /\ GroupsSatisfied(call.arg.rules, 1, call.arg.activity) = {1, 2}
    /\ call.ret # None
    /\ call.ret.project_id = 1
    /\ call.ret.triggered_by = GroupTrigger(1, <<Groups[2], Groups[3]>>)

\* C21: the engine returns the project with the smallest id among the live
\* projects that have a matching ungrouped rule or a satisfied group, even
\* when the lower project matches by a group and a higher one by an
\* ungrouped rule; it returns no match exactly when no live project has
\* either, and a project without rules is never returned.
C21_LowestProjectWins ==
    call.op = "match"
    => LET rows == call.arg.rules
           activity == call.arg.activity
           Hit(p) == \/ UngroupedMatching(rows, p, activity) # {}
                     \/ GroupsSatisfied(rows, p, activity) # {}
           hits == {p \in LiveProjects : Hit(p)}
       IN  /\ (call.ret = None) <=> (hits = {})
           /\ call.ret # None
              => /\ call.ret.project_id \in hits
                 /\ \A p \in hits : call.ret.project_id <= p
                 /\ RowsOf(rows, call.ret.project_id) # {}

\* project 1 matches by its group only, project 2 by an ungrouped rule: the
\* engine returns project 1
C21_Witness ==
    /\ call.op = "match"
    /\ call.arg.rules = UngroupedAndGroup
    /\ UngroupedMatching(call.arg.rules, 1, call.arg.activity) = {}
    /\ GroupsSatisfied(call.arg.rules, 1, call.arg.activity) = {1}
    /\ UngroupedMatching(call.arg.rules, 2, call.arg.activity) # {}
    /\ call.ret # None
    /\ call.ret.project_id = 1

\* the step in which a reload assigns the snapshot
Assigns == reload # None /\ reload.stage = "rules" /\ reload' = None

\* the live projects of a store and the enabled rules of one of them
LiveIn(tables) ==
    {tables.projects[i].id :
        i \in {k \in 1..Len(tables.projects) : tables.projects[k].archived = 0}}

EnabledIn(tables, project_id) ==
    {tables.rules[i] :
        i \in {k \in 1..Len(tables.rules) :
                  /\ tables.rules[k].enabled = 1
                  /\ tables.rules[k].project_id = project_id}}

\* the store with the archived projects, their rules and the disabled rules
\* deleted
Cleaned(tables) ==
    LET LiveP(p) == p.archived = 0
        LiveR(r) == r.enabled = 1 /\ r.project_id \in LiveIn(tables)
    IN  [projects |-> SelectSeq(tables.projects, LiveP),
         rules |-> SelectSeq(tables.rules, LiveR)]

\* C22: a reload that completes right after a completed reload that read
\* the same tables, the store holding these tables still, leaves the
\* snapshot as it was, so that match returns for every activity what it
\* returned after the first of the two.
C22_ReloadIdempotent ==
    [][(Assigns /\ call'.op = "reload" /\ call'.arg.again /\ store' = reload.read)
       => /\ projects' = projects
          /\ \A activity \in EngineActivities :
                Match(projects', activity) = Match(projects, activity)]_vars

\* a second reload in a row has completed over an edited store
C22_Witness ==
    /\ call.op = "reload"
    /\ call.ret = None
    /\ call.arg.again
    /\ store = call.arg.read
    /\ store = [projects |-> ArchivedFirst, rules |-> EditedRules]
    /\ projects = Reload(ArchivedFirst, EditedRules)

\* C23: when a reload assigns the snapshot and the store holds the tables
\* the reload has read, the snapshot lists exactly the non-archived projects
\* in id order, each with exactly its enabled rules in id order; match on it
\* never returns an archived project and returns what it would return were
\* the archived projects, their rules and the disabled rules deleted from
\* the store.
C23_SnapshotExact ==
    [][(Assigns /\ store' = reload.read)
       => /\ {projects'[i].id : i \in 1..Len(projects')} = LiveIn(store')
          /\ Len(projects') = Cardinality(LiveIn(store'))
          /\ \A i \in 1..Len(projects') :
                LET rules == projects'[i].rules
                    rows == EnabledIn(store', projects'[i].id)
                IN  /\ {rules[k].id : k \in 1..Len(rules)} = {r.id : r \in rows}
                    /\ Len(rules) = Cardinality(rows)
                    /\ \A k \in 1..Len(rules) :
                          /\ rules[k].project_id = projects'[i].id
                          /\ k > 1 => rules[k - 1].id < rules[k].id
                    /\ i > 1 => projects'[i - 1].id < projects'[i].id
          /\ \A activity \in EngineActivities :
                LET m == Match(projects', activity)
                    cleaned == Cleaned(store')
                IN  /\ m # None => m.project_id \in LiveIn(store')
                    /\ m = Match(Reload(cleaned.projects, cleaned.rules), activity)]_vars

\* the reload has read a store in which project 1 is archived and rule 4 of
\* group 1 of project 2 is disabled: the editor is not matched to project 1
\* and the mail client is matched by the group, made of rule 5 alone
C23_Witness ==
    /\ call.op = "reload"
    /\ call.ret = None
    /\ store = call.arg.read
    /\ store = [projects |-> ArchivedFirst, rules |-> EditedRules]
    /\ Match(projects, Activity(0, Editor, FALSE)) # None
    /\ Match(projects, Activity(0, Editor, FALSE)).project_id = 3
    /\ Match(projects, Activity(0, MailClient, FALSE))
         = [project_id |-> 2,
            triggered_by |-> GroupTrigger(1, <<DbRules[5]>>)]

\* the snapshots a reload can build from tables it has read in full
WholeSnapshots ==
    {Reload(first.projects, second.rules) : first \in RuleStores, second \in RuleStores}

\* C24: the snapshot the engine holds is at every moment one a reload built
\* from tables it read in full, also while a reload is under way; it changes
\* in the assigning step of a reload only, at once to the snapshot built
\* from the rows fetched; a match made while a reload is under way returns
\* what the snapshot of before the reload gives; a reload that raises
\* leaves the snapshot as it was.
C24_AtomicReplace ==
    /\ [](projects \in WholeSnapshots)
    /\ [][/\ projects' # projects
             => /\ Assigns
                /\ projects' = BuildSnapshot(reload.projects, reload.rules)
          /\ (call' # call /\ call'.op = "match")
             => /\ projects' = projects
                /\ call'.ret = Match(projects, call'.arg)
          /\ (call' # call /\ call'.op = "reload" /\ call'.ret = Raises)
             => /\ projects' = projects
                /\ reload' = None]_vars

\* a reload has fetched both tables and not yet assigned: a match made now
\* returned what the snapshot of before gives, not what the rows fetched give
C24_Witness ==
    /\ reload # None
    /\ reload.stage = "rules"
    /\ call.op = "match"
    /\ call.ret = Match(projects, call.arg)
    /\ call.ret # Match(BuildSnapshot(reload.projects, reload.rules), call.arg)
    /\ projects # BuildSnapshot(reload.projects, reload.rules)

\* C25: a match leaves the snapshot, the open session, the session log, the
\* store and a reload under way as they are and returns what the snapshot
\* gives for the activity, whatever the store holds; a change of the store
\* leaves the snapshot, and so every match result, as it was;
\* process_activity leaves the snapshot and the reload as they are and
\* handles the sample by the match the snapshot gives.
C25_MatchPure ==
    [][/\ (call' # call /\ call'.op = "match")
          => /\ UNCHANGED <<projects, current_session, sessions, store, reload>>
             /\ call'.ret = Match(projects, call'.arg)
       /\ store' # store
          => /\ projects' = projects
             /\ \A activity \in EngineActivities :
                   Match(projects', activity) = Match(projects, activity)
       /\ (call' # call /\ call'.op = "process_activity")
          => /\ UNCHANGED <<projects, store, reload>>
             /\ current_session'
                  = process_activity(config, projects, Manager, call'.arg).session]_vars

\* project 1 is archived in the store and no reload was made: the editor is
\* still matched to project 1 and a session of project 1 is open
C25_Witness ==
    /\ store.projects = ArchivedFirst
    /\ reload = None
    /\ projects = Reload(DbProjects, DbRules)
    /\ call.op = "process_activity"
    /\ call.before = None
    /\ ScreenOf(call.arg) = Editor
    /\ current_session # None
    /\ current_session.project_id = 1
    /\ Match(Reload(store.projects, store.rules), call.arg) # None
    /\ Match(Reload(store.projects, store.rules), call.arg).project_id = 3

\* the ungrouped regex rules whose pattern the compiler rejects
Malformed(r) ==
    /\ r.rule_type \in {"window_regex", "url_regex"}
    /\ r.rule_group = 0
    /\ ~ValidPattern(r.rule_value) \/ TooLarge(r.rule_value)

\* C26: with ungrouped regex rules whose pattern is rejected in the table,
\* match does not raise and returns what it returns with these rules
\* removed from the table.
C26_BadPatternSkipped ==
    call.op = "match"
    => LET WellFormed(r) == ~Malformed(r)
           without == SelectSeq(call.arg.rules, WellFormed)
       IN  /\ call.ret # Raises
           /\ call.ret = Match(Reload(DbProjects, without), call.arg.activity)

\* C27: update_activity_block, when the sample's application, bundle id,
\* window title, file path, URL and idle flag all equal those of the row
\* with the highest id, adds no row and changes that row only, its end_time
\* becoming the sample's timestamp (to the second) and its duration
\* end_time - start_time, start_time staying; otherwise it appends one row
\* that starts and ends at the sample's timestamp with duration 0 and
\* changes no other row.
C27_ExtendOrAppend ==
    [][(call' # call /\ call'.op = "update_activity_block")
       => LET activity == call'.arg
              n == Len(activity_blocks)
              when == format_utc_timestamp(activity.timestamp)
              flag == IF activity.idle THEN 1 ELSE 0
              same == /\ n > 0
                      /\ ScreenOf(activity_blocks[n]) = ScreenOf(activity)
                      /\ activity_blocks[n].idle = flag
          IN  IF same
              THEN /\ Len(activity_blocks') = n
                   /\ \A i \in 1..(n - 1) : activity_blocks'[i] = activity_blocks[i]
                   /\ activity_blocks'[n].end_time = when
                   /\ activity_blocks'[n].duration
                        = when - activity_blocks[n].start_time
                   /\ activity_blocks'[n]
                        = [activity_blocks[n] EXCEPT
                             !.end_time = activity_blocks'[n].end_time,
                             !.duration = activity_blocks'[n].duration]
              ELSE /\ Len(activity_blocks') = n + 1
                   /\ \A i \in 1..n : activity_blocks'[i] = activity_blocks[i]
                   /\ activity_blocks'[n + 1]
                        = [id |-> n + 1, start_time |-> when, end_time |-> when,
                           duration |-> 0, app_name |-> activity.app_name,
                           bundle_id |-> activity.bundle_id,
                           window_title |-> activity.window_title,
                           file_path |-> activity.file_path,
                           url |-> activity.url, idle |-> flag]]_vars

\* the second row was extended by a later sample, the first row was not
\* touched; the row before differs from the sample in the idle flag only
C27_Witness ==
    /\ call.op = "update_activity_block"
    /\ Len(activity_blocks) = 2
    /\ ScreenOf(activity_blocks[1]) = ScreenOf(activity_blocks[2])
    /\ activity_blocks[1].idle # activity_blocks[2].idle
    /\ activity_blocks[1].duration = 0
    /\ activity_blocks[2].start_time < activity_blocks[2].end_time
    /\ activity_blocks[2].duration = 1
    /\ activity_blocks[2].end_time = format_utc_timestamp(call.arg.timestamp)
    /\ call.arg.timestamp % Res # 0

\* the positions of the daemon inside its polling loop
InLoop == {"ipc", "poll", "sleep"}

\* C28: a tick that raises, at whatever stage, leaves the daemon running in
\* its loop with socket, PID file and lock held: after an exception caught
\* in handle_ipc the tick goes on, after any other the loop is back at its
\* top, where the next tick starts; running becomes false by a stop signal
\* only, and the loop is left only from its top with running false.
C28_TickFailureSurvived ==
    /\ [](running => pc \in InLoop /\ held = Resources)
    /\ [][/\ (pc = "ipc" /\ pc' = "poll" /\ Failed(call'))
             => UNCHANGED <<running, held, current_session, sessions>>
          /\ (pc = "poll" /\ pc' \notin {"poll", "sleep"})
             => /\ pc' = "ipc"
                /\ Failed(call')
                /\ UNCHANGED <<running, held, clock>>
          /\ running' # running
             => ~running' /\ UNCHANGED <<pc, call, current_session, sessions, held>>
          /\ (pc \in InLoop /\ pc' \notin InLoop)
             => pc = "ipc" /\ ~running /\ call'.op = "shutdown"]_vars

\* a tick has completed whose sample carries the timestamp of the sample
\* before it: the tick before raised after process_activity and did not
\* sleep, and the loop went on
C28_Witness ==
    /\ pc = "sleep"
    /\ running
    /\ call.op = "process_activity"
    /\ call.before # None
    /\ call.before.last_active_time = call.arg.timestamp
    /\ held = Resources

\* C29: at every moment at most one daemon process is in setup, in its
\* loop or stopping, and that process holds the lock; a process that tries
\* the lock while another holds it is refused and exits without entering
\* the loop; the lock leaves its holder only when the holder's shutdown
\* releases it.
C29_SingleInstance ==
    /\ [](/\ Cardinality({p \in Processes : instances[p] \in Monitoring}) <= 1
          /\ \A p \in Processes : instances[p] \in Monitoring <=> flock = p)
    /\ [][/\ \A p \in Processes :
                (instances[p] = "started" /\ instances'[p] # "started" /\ flock # 0)
                => instances'[p] = "refused" /\ flock' = flock
          /\ \A p \in Processes :
                instances[p] = "refused" => instances'[p] = "refused"
          /\ (flock # 0 /\ flock' # flock)
             => /\ flock' = 0
                /\ instances[flock] = "stopping"
                /\ instances'[flock] = "exited"]_vars

\* three processes were started: one is in its loop and holds the lock,
\* the two others were refused
C29_Witness ==
    /\ \E p \in Processes :
          /\ instances[p] = "loop"
          /\ flock = p
          /\ \A q \in Processes \ {p} : instances[q] = "refused"

\* C30: a STATUS or PAUSE request is served at the top of a tick only,
\* before the tick's sample is taken, and process_activity runs only in the
\* polling step that follows, so the two are never in progress together; a
\* STATUS request changes neither the open session nor the log, and the
\* project, the trigger and the duration of its payload are those of the one
\* open session as it stands at that moment (no session in the payload
\* exactly when none is open); a PAUSE request leaves no session open.
C30_IpcBetweenTicks ==
    [][/\ (call' # call /\ call'.op \in {"STATUS", "PAUSE"})
          => /\ pc = "ipc" /\ pc' = "poll"
             /\ clock' = clock
             /\ last_activity' = last_activity
       /\ (call' # call /\ call'.op = "process_activity")
          => pc = "poll" /\ pc' = "sleep"
       /\ (call' # call /\ call'.op = "PAUSE")
          => current_session' = None
       /\ (call' # call /\ call'.op = "STATUS")
          => /\ UNCHANGED <<current_session, sessions>>
             /\ call'.before = current_session
             /\ IF current_session = None
                THEN call'.ret.session = None
                ELSE LET cur == current_session
                         since == IF cur.last_tracked_time # NoTime
                                     /\ clock > cur.last_tracked_time
                                  THEN clock - cur.last_tracked_time
                                  ELSE 0
                     IN  /\ call'.ret.session # None
                         /\ call'.ret.session.project_id = cur.project_id
                         /\ call'.ret.session.triggered_by = cur.triggered_by
                         /\ call'.ret.session.duration
                              = Round(cur.duration_seconds + since)]_vars

\* a STATUS request was served after the sleep that followed the sample
\* that switched the session to another project: the payload names the new
\* project and its duration is the time since that sample
C30_Witness ==
    /\ pc = "poll"
    /\ call.op = "STATUS"
    /\ current_session # None
    /\ sessions # <<>>
    /\ sessions[1].project_id # current_session.project_id
    /\ call.ret.session # None
    /\ call.ret.session.project_id = current_session.project_id
    /\ call.ret.session.duration = 1
    /\ current_session.duration_seconds = 0

(***************************************************************************)
(* C31: abandonment closes the session.  Under SpecSampler samples keep    *)
(* arriving with growing timestamps and, from MaxTime on, none of them     *)
(* matches (the user is idle, the application is untracked or tracking is  *)
(* paused): whenever a session is open, a state follows in which no        *)
(* session is open; no session stays open forever.                         *)
(***************************************************************************)
C31_AbandonedSessionCloses ==
    (current_session # None) ~> (current_session = None)

\* a session opened before MaxTime was closed by a sample that matched
\* nothing, which arrived after the last matching sample could
C31_Witness ==
    /\ call.op = "process_activity"
    /\ call.before # None
    /\ current_session = None
    /\ clock > MaxTime
    /\ MatchOf(config, projects, call.arg) = None
    /\ call.arg.timestamp - call.before.last_active_time > Grace(config, call.arg) * Res

\* C32: a gap within grace merges into one session.  A sample matching the
\* open session's project that arrives after one or more samples that did
\* not match (none of which closed the session) continues that session: the
\* session keeps its start_time, that of its first matching sample, no
\* record is written, and the time from the last matching sample before the
\* gap to the resuming sample adds nothing to duration_seconds, which stays
\* the time accrued between matching samples that followed one another.
\* Accrual starts again at the resuming sample.
C32_GapWithinGraceMerges ==
    [][ ( /\ call'.op = "process_activity"
          /\ ProcessActivity(call'.arg)
          /\ current_session # None
          /\ hist # None
          /\ hist.gap
          /\ MatchOf(config, projects, call'.arg) # None
          /\ MatchOf(config, projects, call'.arg).project_id
                = current_session.project_id )
        => /\ sessions' = sessions
           /\ current_session' # None
           /\ current_session'.project_id = current_session.project_id
           /\ current_session'.start_time = current_session.start_time
           /\ current_session'.start_time = hist.first
           /\ current_session'.duration_seconds = current_session.duration_seconds
           /\ current_session'.duration_seconds = hist.sum
           /\ current_session'.last_active_time = call'.arg.timestamp
           /\ current_session'.last_tracked_time = call'.arg.timestamp ]_vars

\* a session with time accrued was resumed after a gap of positive length:
\* the resuming sample is later than the last matching one, and the accrued
\* time is what it was before the gap
C32_Witness ==
    /\ call.op = "process_activity"
    /\ call.before # None
    /\ call.before.last_tracked_time = NoTime
    /\ call.before.duration_seconds > 0
    /\ call.arg.timestamp > call.before.last_active_time
    /\ current_session # None
    /\ current_session.project_id = call.before.project_id
    /\ current_session.start_time = call.before.start_time
    /\ current_session.duration_seconds = call.before.duration_seconds
    /\ current_session.last_tracked_time = call.arg.timestamp
    /\ hist.first = current_session.start_time
    /\ sessions = <<>>

\* C33: the grace_remaining of the status payload.  A STATUS command
\* answers with no session when none is open.  When one is open and the
\* most recent sample was idle, grace_remaining is the idle grace period
\* less the whole seconds elapsed since last_active_time, and 0 where that
\* is negative: it lies between 0 and the idle grace period.  When one is
\* open and the most recent sample was not idle, grace_remaining is null,
\* also when that sample matched nothing and the session is kept open by
\* its session grace period.
C33_GraceRemaining ==
    [][ DaemonIpc("STATUS")
        => LET payload == call'.ret
               elapsed == (clock - current_session.last_active_time) \div Res
           IN  IF current_session = None
               THEN payload.session = None
               ELSE IF last_activity # None /\ last_activity.idle
               THEN /\ payload.session.grace_remaining
                          = Max(0, config.idle_grace_period - elapsed)
                    /\ payload.session.grace_remaining >= 0
                    /\ payload.session.grace_remaining <= config.idle_grace_period
               ELSE payload.session.grace_remaining = None ]_vars

\* the status was asked for during a gap that is not idle: the latest sample
\* matched nothing, the session is open within its session grace period,
\* and the payload reports no grace
C33_Witness ==
    /\ call.op = "STATUS"
    /\ pc = "poll"
    /\ current_session # None
    /\ last_activity # None
    /\ ~last_activity.idle
    /\ MatchOf(config, projects, last_activity) = None
    /\ current_session.last_tracked_time = NoTime
    /\ clock - current_session.last_active_time
          <= config.session_grace_period * Res
    /\ clock > current_session.last_active_time
    /\ call.ret.session.grace_remaining = None

\* C34: the triggered_by of a record is that of the last matching sample of
\* its session.  Every matching sample leaves the open session with the
\* trigger description of its own match, whether it opens the session or
\* finds it open for the same project; no other call changes the
\* triggered_by of a session it leaves open; and a record, whenever one is
\* written, carries the triggered_by the session had when it was closed.
C34_TriggerOfLastMatch ==
    [][ /\ ( call'.op = "process_activity" /\ ProcessActivity(call'.arg)
             /\ MatchOf(config, projects, call'.arg) # None )
           => /\ current_session' # None
              /\ current_session'.triggered_by
                    = MatchOf(config, projects, call'.arg).triggered_by
              /\ current_session'.last_active_time = call'.arg.timestamp
              /\ current_session'.last_tracked_time = call'.arg.timestamp
        /\ ( /\ ~ ( call'.op = "process_activity" /\ ProcessActivity(call'.arg)
                    /\ MatchOf(config, projects, call'.arg) # None )
             /\ current_session # None
             /\ current_session' # None )
           => current_session'.triggered_by = current_session.triggered_by
        /\ Len(sessions') > Len(sessions)
           => /\ current_session # None
              /\ Len(sessions') = Len(sessions) + 1
              /\ Last(sessions').triggered_by = current_session.triggered_by
              /\ Last(sessions').project_id = current_session.project_id ]_vars

\* a sample matching the open session's project by another rule than the
\* one the session carried: the session goes on, from the same start_time,
\* under the trigger description of that sample
C34_Witness ==
    /\ call.op = "process_activity"
    /\ call.before # None
    /\ current_session # None
    /\ current_session.project_id = call.before.project_id
    /\ current_session.start_time = call.before.start_time
    /\ current_session.triggered_by # call.before.triggered_by
    /\ current_session.triggered_by
          = MatchOf(config, projects, call.arg).triggered_by
    /\ current_session.last_tracked_time = call.arg.timestamp

\* the open session is below the minimum duration in force
BelowMinimum ==
    /\ current_session # None
    /\ Round(current_session.duration_seconds) < config.min_session_duration

\* C35: discarding a session below the minimum duration leaves a clean
\* state.  Whenever such a session is closed (by a non-matching sample past
\* its grace, by pause, by shutdown or by a sample matching another project)
\* the call returns normally, no record is written and the session is gone:
\* the slot is empty, or, on a project switch, holds the new project's
\* session, opened at the new sample's timestamp with duration 0 and the
\* trigger of that sample, nothing of it coming from the discarded session.
C35_DiscardIsClean ==
    [][ BelowMinimum
        => /\ ( call'.op = "pause" /\ Pause(call'.arg) )
              => /\ sessions' = sessions
                 /\ current_session' = None
                 /\ call'.ret = None
           /\ ( call'.op = "shutdown" /\ Shutdown(call'.arg) )
              => /\ sessions' = sessions
                 /\ current_session' = None
                 /\ call'.ret = None
           /\ ( call'.op = "process_activity" /\ ProcessActivity(call'.arg) )
              => LET activity == call'.arg
                     match == MatchOf(config, projects, activity)
                     elapsed == activity.timestamp - current_session.last_active_time
                 IN  /\ sessions' = sessions
                     /\ call'.ret = None
                     /\ ( match = None /\ elapsed > Grace(config, activity) * Res )
                        => current_session' = None
                     /\ ( match # None
                          /\ match.project_id # current_session.project_id )
                        => current_session'
                             = SessionState(match.project_id, activity.timestamp,
                                            match.triggered_by, 0,
                                            activity.timestamp, activity.timestamp)
      ]_vars

\* a sample of another project found a session with time accrued, but less
\* than the minimum: the log is still empty and the new session starts at
\* the sample, later than the discarded session did, with nothing accrued
C35_Witness ==
    /\ call.op = "process_activity"
    /\ call.before # None
    /\ call.before.duration_seconds > 0
    /\ Round(call.before.duration_seconds) < config.min_session_duration
    /\ current_session # None
    /\ current_session.project_id # call.before.project_id
    /\ current_session.start_time = call.arg.timestamp
    /\ current_session.start_time > call.before.start_time
    /\ current_session.duration_seconds = 0
    /\ sessions = <<>>

\* a step that writes a record closing the session at its last_active_time:
\* every closing path but pause with an end time given
ClosesAtLastActive ==
    /\ Len(sessions') > Len(sessions)
    /\ current_session # None
    /\ call'.op = "pause" => call'.arg = NoTime

\* C36 as claimed: under non-decreasing sample timestamps every open
\* session has start_time <= last_active_time and duration_seconds <=
\* last_active_time - start_time, and every record closed at
\* last_active_time has end_time >= start_time and 0 <= duration <=
\* end_time - start_time.
C36_DurationWithinInterval ==
    /\ [] ( current_session # None
            => /\ current_session.start_time <= current_session.last_active_time
               /\ current_session.duration_seconds
                     <= current_session.last_active_time - current_session.start_time )
    /\ [][ ClosesAtLastActive
           => LET record == Last(sessions')
              IN  /\ record.end_time >= record.start_time
                  /\ 0 <= record.duration
                  /\ record.duration <= record.end_time - record.start_time ]_vars

\* C36, amended: under non-decreasing sample timestamps every open session
\* has start_time <= last_active_time and 0 <= duration_seconds <=
\* last_active_time - start_time; every record closed at last_active_time
\* has the session's start_time and last_active_time at second precision as
\* start_time and end_time, end_time >= start_time, and as duration the
\* accrued time rounded to the nearest second, which is at least 0 and at
\* most end_time - start_time + 1.
C36_DurationWithinIntervalRounded ==
    /\ [] ( current_session # None
            => /\ current_session.start_time <= current_session.last_active_time
               /\ 0 <= current_session.duration_seconds
               /\ current_session.duration_seconds
                     <= current_session.last_active_time - current_session.start_time )
    /\ [][ ClosesAtLastActive
           => LET record == Last(sessions')
              IN  /\ record.start_time = format_utc_timestamp(current_session.start_time)
                  /\ record.end_time
                        = format_utc_timestamp(current_session.last_active_time)
                  /\ record.duration = Round(current_session.duration_seconds)
                  /\ record.end_time >= record.start_time
                  /\ 0 <= record.duration
                  /\ record.duration <= record.end_time - record.start_time + 1 ]_vars

\* a session that accrued the whole time from its start to its last active
\* time was closed there, and its record's duration, rounded up, is one
\* second more than its end_time less its start_time
C36_Witness ==
    /\ sessions # <<>>
    /\ call.before # None
    /\ call.op \in {"process_activity", "shutdown"}
    /\ call.before.duration_seconds
          = call.before.last_active_time - call.before.start_time
    /\ Last(sessions).end_time = format_utc_timestamp(call.before.last_active_time)
    /\ Last(sessions).start_time = format_utc_timestamp(call.before.start_time)
    /\ Last(sessions).duration = Round(call.before.duration_seconds)
    /\ Last(sessions).duration
          = Last(sessions).end_time - Last(sessions).start_time + 1

\* C37: under non-decreasing sample timestamps the records of the session
\* log do not overlap and are in time order: every record ends no earlier
\* than it starts, every record starts no earlier than the record written
\* before it ends, and the open session, if any, starts no earlier than the
\* latest record ends, so that the record it will leave follows in turn.
C37_RecordsDoNotOverlap ==
    /\ \A i \in 1..Len(sessions) : sessions[i].start_time <= sessions[i].end_time
    /\ \A i \in 1..(Len(sessions) - 1) :
          sessions[i + 1].start_time >= sessions[i].end_time
    /\ ( current_session # None /\ sessions # <<>> )
       => /\ format_utc_timestamp(current_session.start_time)
                >= Last(sessions).end_time
          /\ current_session.start_time
                >= parse_utc_timestamp(Last(sessions).end_time)

\* two records of two projects, the first of a session that lasted a second
\* or more, the second starting in the second in which the first ended
C37_Witness ==
    /\ Len(sessions) = 2
    /\ sessions[1].project_id # sessions[2].project_id
    /\ sessions[1].end_time > sessions[1].start_time
    /\ sessions[1].duration > 0
    /\ sessions[2].start_time = sessions[1].end_time

\* the calls of the manager that can reach the INSERT of _end_session
StorageCalls == {"process_activity", "pause", "shutdown"}

\* C38: a failed INSERT loses no session.  When the INSERT raises while a
\* session is finalized (by a sample past the grace, by a sample of another
\* project, by pause or by shutdown) the call raises to its caller, nothing
\* is written, and the session is still the open one, with its project,
\* start_time, accrued duration, last_active_time and triggered_by; a
\* sample of another project opens no session in that step.  The call that
\* asks for the finalization next (pause, shutdown, a non-matching sample
\* past the grace, a sample of another project) reaches the INSERT again
\* and, the storage working, writes the record of that session.
C38_FailedInsertKeepsSession ==
    [][ /\ ( call'.op \in StorageCalls /\ call'.ret = Raises )
           => /\ current_session # None
              /\ sessions' = sessions
              /\ current_session'
                    = IF call'.op = "process_activity"
                         /\ MatchOf(config, projects, call'.arg) = None
                      THEN [current_session EXCEPT !.last_tracked_time = NoTime]
                      ELSE current_session
        /\ ( /\ call.op \in StorageCalls /\ call.ret = Raises
             /\ call'.op \in StorageCalls /\ call'.ret = None )
           => LET end_time ==
                      IF call'.op = "pause" /\ call'.arg # NoTime
                      THEN call'.arg ELSE current_session.last_active_time
                  record == RecordOf(current_session, current_session.start_time,
                                     end_time, current_session.duration_seconds)
                  match == IF call'.op = "process_activity"
                           THEN MatchOf(config, projects, call'.arg) ELSE None
                  elapsed == call'.arg.timestamp - current_session.last_active_time
              IN  IF call'.op \in {"pause", "shutdown"}
                  THEN /\ sessions' = Append(sessions, record)
                       /\ current_session' = None
                  ELSE IF match = None
                  THEN IF elapsed > Grace(config, call'.arg) * Res
                       THEN /\ sessions' = Append(sessions, record)
                            /\ current_session' = None
                       ELSE /\ sessions' = sessions
                            /\ current_session'
                                  = [current_session EXCEPT !.last_tracked_time = NoTime]
                  ELSE IF match.project_id # current_session.project_id
                  THEN /\ sessions' = Append(sessions, record)
                       /\ current_session' = NewSession(call'.arg, match)
                  ELSE /\ sessions' = sessions
                       /\ current_session'.start_time = current_session.start_time
      ]_vars

\* the INSERT raised for a sample that found the session past its grace:
\* the session is still open, although the latest sample matched nothing
\* and came later than the grace allows, and nothing was written
C38_Witness ==
    /\ call.op = "process_activity"
    /\ call.ret = Raises
    /\ call.before # None
    /\ current_session # None
    /\ current_session.start_time = call.before.start_time
    /\ current_session.duration_seconds = call.before.duration_seconds
    /\ current_session.duration_seconds > 0
    /\ MatchOf(config, projects, call.arg) = None
    /\ call.arg.timestamp - current_session.last_active_time
          > Grace(config, call.arg) * Res
    /\ sessions = <<>>

\* C39: a daemon process that does not get the lock leaves everything as
\* it is.  The step in which a process is refused runs no shutdown: the
\* PID file and the socket are those of before, the log and the open
\* session of the monitoring process are untouched, no call of the session
\* manager is made, and the lock stays with its holder; a refused process
\* does nothing afterwards.  So while a process is in its loop the PID file
\* and the socket are its own, however many others were refused meanwhile.
C39_RefusedLeavesNoTrace ==
    /\ [] ( \A p \in Processes :
               instances[p] = "loop" => tt_dir = [PID_PATH |-> p, SOCK_PATH |-> p] )
    /\ [][ \A p \in Processes :
              /\ ( instances[p] = "started" /\ instances'[p] = "refused" )
                 => /\ tt_dir' = tt_dir
                    /\ sessions' = sessions
                    /\ current_session' = current_session
                    /\ call' = call
                    /\ flock' = flock
                    /\ \A q \in Processes \ {p} : instances'[q] = instances[q]
              /\ ( instances[p] = "refused" /\ instances'[p] = "refused"
                   /\ tt_dir' # tt_dir )
                 => \E q \in Processes \ {p} :
                       instances[q] \in Monitoring /\ instances'[q] # instances[q]
         ]_vars

\* a process was refused while another is in its loop with a session open:
\* PID file and socket are the monitoring process's, nothing is in the log
C39_Witness ==
    \E p \in Processes, q \in Processes :
        /\ instances[p] = "loop"
        /\ instances[q] = "refused"
        /\ flock = p
        /\ tt_dir = [PID_PATH |-> p, SOCK_PATH |-> p]
        /\ current_session # None
        /\ sessions = <<>>

====
